---- MODULE Spec2Model ----
(***************************************************************************)
(* A model of go-llsd: the token readers (mock reader, BinaryScanner), the *)
(* scalar decoders (textDecoder, binaryDecoder), the reflective            *)
(* Unmarshaler of decode.go and the XML encoder.                           *)
(*                                                                         *)
(* Conventions.                                                            *)
(*  - A Go string or []byte is a sequence of byte codes (0..255).          *)
(*  - A Go int64 is a sequence of four 16-bit limbs, least significant     *)
(*    first, in two's complement (TLC's own integers are 32 bits wide).    *)
(*  - A reflect.Type is a record [k, name, ...]; k is the reflect.Kind.    *)
(*  - A reflect.Value is a record [ty, ...payload].                        *)
(*  - The Unmarshaler's recursion (value/object/array) is an explicit      *)
(*    stack of frames; one action runs the code from one read of the       *)
(*    token reader to the next.                                            *)
(***************************************************************************)
EXTENDS Integers, Sequences, FiniteSets, TLC

VARIABLES
    stack,      \* call stack of the Unmarshaler, innermost frame last
    tok,        \* Unmarshaler.tok, the last token read
    consumed,   \* the tokens the reader has returned so far, in order
    result,     \* "running", or the outcome of Unmarshal
    dst,        \* the caller's destination (the pointee of Unmarshal's argument)
    dst0,       \* the destination as it was before the call
    cfg,        \* the Unmarshaler's fields: DisallowUnknownFields, text, dec, scan
    input,      \* BinaryScanner.r: the bytes not yet read
    off,        \* the reader's offset: mockTokenReader.offset, BinaryScanner.off
    scanErr,    \* the error the reader's last Token() returned (NoErr for nil)
    output,     \* what a call other than Unmarshal returned besides its error
    fieldCache, \* the package's fieldCache: record type -> published table
    goroutines  \* the goroutines inside cachedFieldsForType, and what they got

vars ==
    <<stack, tok, consumed, result, dst, dst0, cfg, input, off, scanErr, output,
      fieldCache, goroutines>>

(***************************************************************************)
(* Bounds of the model.                                                    *)
(***************************************************************************)
MaxTokens == 5

\* the most fields of a record, and entries of a map, that MarshalXML ranges over
MaxFields == 3

(***************************************************************************)
(* Byte codes.                                                             *)
(***************************************************************************)
Limb == 65536

chA == 65
chX == 88
chMinus == 45
chPlus == 43
ch0 == 48
ch9 == 57

\* "A" and "X" as Go strings.
sA == <<chA>>
sX == <<chX>>

(***************************************************************************)
(* int64 arithmetic on limbs.                                              *)
(***************************************************************************)
W0 == <<0, 0, 0, 0>>

\* int64(n) for an n that TLC can hold
WInt(n) ==
    IF n >= 0 THEN <<n % Limb, n \div Limb, 0, 0>>
    ELSE <<n % Limb, (n \div Limb) % Limb, Limb - 1, Limb - 1>>

\* w * 10 + d, wrapping at 64 bits
WMulAdd10(w, d) ==
    LET a0 == w[1] * 10 + d
        a1 == w[2] * 10 + (a0 \div Limb)
        a2 == w[3] * 10 + (a1 \div Limb)
        a3 == w[4] * 10 + (a2 \div Limb)
    IN  <<a0 % Limb, a1 % Limb, a2 % Limb, a3 % Limb>>

\* -w, wrapping at 64 bits
WNeg(w) ==
    LET a0 == (Limb - 1 - w[1]) + 1
        a1 == (Limb - 1 - w[2]) + (a0 \div Limb)
        a2 == (Limb - 1 - w[3]) + (a1 \div Limb)
        a3 == (Limb - 1 - w[4]) + (a2 \div Limb)
    IN  <<a0 % Limb, a1 % Limb, a2 % Limb, a3 % Limb>>

\* the sign-extension of the low `bits` bits of w (Go's intN(w))
WTrunc(w, bits) ==
    CASE bits = 64 -> w
      [] bits = 32 -> LET s == IF w[2] >= 32768 THEN Limb - 1 ELSE 0
                      IN  <<w[1], w[2], s, s>>
      [] bits = 16 -> LET s == IF w[1] >= 32768 THEN Limb - 1 ELSE 0
                      IN  <<w[1], s, s, s>>
      [] bits = 8  -> LET b == w[1] % 256
                      IN  IF b >= 128 THEN <<b + (Limb - 256), Limb - 1, Limb - 1, Limb - 1>>
                          ELSE <<b, 0, 0, 0>>

(***************************************************************************)
(* reflect.Type and reflect.Value.                                         *)
(***************************************************************************)
TInt8 == [k |-> "int8", name |-> "int8"]
TInt16 == [k |-> "int16", name |-> "int16"]
TInt32 == [k |-> "int32", name |-> "int32"]
TInt64 == [k |-> "int64", name |-> "int64"]
TInt == [k |-> "int", name |-> "int"]
TUint8 == [k |-> "uint8", name |-> "uint8"]
TUint32 == [k |-> "uint32", name |-> "uint32"]
TUint64 == [k |-> "uint64", name |-> "uint64"]
TUint == [k |-> "uint", name |-> "uint"]
TFloat32 == [k |-> "float32", name |-> "float32"]
TString == [k |-> "string", name |-> "string"]
TURL == [k |-> "string", name |-> "URL"]
TBool == [k |-> "bool", name |-> "bool"]
TFloat64 == [k |-> "float64", name |-> "float64"]
TAny == [k |-> "interface", name |-> "any"]
TStruct(fields) == [k |-> "struct", name |-> "struct", fields |-> fields]
TMap(kty, ety) == [k |-> "map", name |-> "map", key |-> kty, elem |-> ety]
TSlice(ety) == [k |-> "slice", name |-> "slice", elem |-> ety]
TArray(n, ety) == [k |-> "array", name |-> "array", n |-> n, elem |-> ety]
TPtr(ety) == [k |-> "ptr", name |-> "ptr", elem |-> ety]
TInvalid == [k |-> "invalid", name |-> "invalid"]
\* time.Time, a struct without exported fields
TTime == [k |-> "struct", name |-> "time.Time", fields |-> <<>>]
\* llsd.UUID, [16]byte
TUUID == [k |-> "array", name |-> "UUID", n |-> 16, elem |-> TUint8]
\* the csv type of the tests, a []string whose pointer implements TextUnmarshaler
TCsv == [k |-> "slice", name |-> "csv", elem |-> TString]

\* a struct field of a record type: its Go name, its llsd and json tags, its type
Field(name, llsd, json, ty) == [Name |-> name, llsd |-> llsd, json |-> json, ty |-> ty]

SignedKinds == {"int", "int8", "int16", "int32", "int64"}
UnsignedKinds == {"uint", "uint8", "uint32", "uint64"}
FloatKinds == {"float32", "float64"}

BitSize(k) ==
    CASE k = "int8" -> 8
      [] k = "int16" -> 16
      [] k = "int32" -> 32
      [] k \in {"int", "int64"} -> 64

\* the zero reflect.Value (reflect.Value{}), for which IsValid() is false
Invalid == [ty |-> TInvalid]

IsValid(v) == v.ty.k # "invalid"

\* a float64: the zero, or what strconv.ParseFloat / math.Float64frombits
\* makes of a payload (the external codec is not interpreted)
F0 == [src |-> "zero", data |-> <<>>]

\* a time.Time: the zero time, time.Unix(0, 0), or what time.Parse / time.Unix
\* makes of a payload; unix is its Unix() as an int64
ZeroTime == [src |-> "zero", data |-> <<>>, unix |-> <<2304, 34926, 65521, 65535>>]
Epoch == [src |-> "epoch", data |-> <<>>, unix |-> W0]

RECURSIVE Zero(_)
\* reflect.Zero(ty) / reflect.New(ty).Elem()
Zero(ty) ==
    CASE ty.k \in SignedKinds \cup UnsignedKinds -> [ty |-> ty, i |-> W0]
      [] ty.k = "string" -> [ty |-> ty, s |-> <<>>]
      [] ty.k = "bool" -> [ty |-> ty, b |-> FALSE]
      [] ty.k \in FloatKinds -> [ty |-> ty, f |-> F0]
      [] ty.k = "interface" -> [ty |-> ty, dyn |-> Invalid]
      [] ty.k = "struct" /\ ty.name = "time.Time" -> [ty |-> ty, t |-> ZeroTime]
      [] ty.k = "struct" /\ ty.name # "time.Time" ->
            [ty |-> ty, flds |-> [j \in 1..Len(ty.fields) |-> Zero(ty.fields[j].ty)]]
      [] ty.k = "map" -> [ty |-> ty, isnil |-> TRUE, m |-> <<>>]
      [] ty.k = "slice" -> [ty |-> ty, len |-> 0, cap |-> 0, arr |-> <<>>]
      [] ty.k = "array" -> [ty |-> ty, arr |-> [j \in 1..ty.n |-> Zero(ty.elem)]]
      [] ty.k = "ptr" -> [ty |-> ty, isnil |-> TRUE, elem |-> Invalid]

VInt(ty, n) == [ty |-> ty, i |-> WInt(n)]
VStr(ty, s) == [ty |-> ty, s |-> s]
VBool(b) == [ty |-> TBool, b |-> b]
VAny(v) == [ty |-> TAny, dyn |-> v]
VBytes(b) == [ty |-> TSlice(TUint8), len |-> Len(b), cap |-> Len(b),
              arr |-> [j \in 1..Len(b) |-> [ty |-> TUint8, i |-> <<b[j], 0, 0, 0>>]]]
\* a non-nil pointer to v
PtrTo(v) == [ty |-> TPtr(v.ty), isnil |-> FALSE, elem |-> v]

(***************************************************************************)
(* Errors.                                                                 *)
(***************************************************************************)
\* a run-time panic of the Go program
Panic(why) == [e |-> "panic", why |-> why]
\* io.EOF, or another error value the reader returns
ReaderErr(which) == [e |-> which]
InvalidLLSDError(what, name, offset) ==
    [e |-> "InvalidLLSDError", what |-> what, name |-> name, Offset |-> offset]
UnmarshalTypeError(label, data, ty, offset) ==
    [e |-> "UnmarshalTypeError", label |-> label, data |-> data, Type |-> ty, Offset |-> offset]
UnknownFieldError(key) == [e |-> "UnknownField", key |-> key]
DecodeErr(which, data) == [e |-> which, data |-> data]

\* the outcome of a call that returns (value, error) or panics
Ok(v) == [st |-> "ok", v |-> v]
Err(e) == [st |-> "err", err |-> e]

(***************************************************************************)
(* The scalar decoders.                                                    *)
(***************************************************************************)
IsDigit(c) == c >= ch0 /\ c <= ch9

\* 2^63 <= w, read as unsigned
WHigh(w) == w[4] >= 32768

RECURSIVE AtoiDigits(_, _, _)
\* the digit loop of strconv.ParseUint(s, 10, 64) from position j on
AtoiDigits(s, j, acc) ==
    IF j > Len(s) THEN Ok(acc)
    ELSE IF ~IsDigit(s[j]) THEN Err(DecodeErr("strconv.ErrSyntax", s))
    ELSE LET top == acc[4] * 10 + ((acc[3] * 10 + ((acc[2] * 10 + ((acc[1] * 10 + (s[j] - ch0)) \div Limb)) \div Limb)) \div Limb)
         IN  IF top >= Limb THEN Err(DecodeErr("strconv.ErrRange", s))
             ELSE AtoiDigits(s, j + 1, WMulAdd10(acc, s[j] - ch0))

\* strconv.Atoi on a 64-bit platform
Atoi(s) ==
    IF Len(s) = 0 THEN Err(DecodeErr("strconv.ErrSyntax", s))
    ELSE LET signed == s[1] \in {chMinus, chPlus}
             neg == s[1] = chMinus
             from == IF signed THEN 2 ELSE 1
         IN  IF from > Len(s) THEN Err(DecodeErr("strconv.ErrSyntax", s))
             ELSE LET r == AtoiDigits(s, from, W0)
                  IN  IF r.st # "ok" THEN r
                      ELSE IF neg
                           THEN (IF WHigh(r.v) /\ r.v # <<0, 0, 0, 32768>>
                                 THEN Err(DecodeErr("strconv.ErrRange", s))
                                 ELSE Ok(WNeg(r.v)))
                           ELSE (IF WHigh(r.v)
                                 THEN Err(DecodeErr("strconv.ErrRange", s))
                                 ELSE Ok(r.v))

\* int64(binary.BigEndian.Uint32(b)); Uint32 indexes b[3] first and panics on a short slice
BigEndianUint32(b) ==
    IF Len(b) < 4 THEN Err(Panic("index out of range"))
    ELSE Ok(<<b[3] * 256 + b[4], b[1] * 256 + b[2], 0, 0>>)

\* binary.BigEndian.Uint64(b) as an int64 bit pattern
BigEndianUint64(b) ==
    IF Len(b) < 8 THEN Err(Panic("index out of range"))
    ELSE Ok(<<b[7] * 256 + b[8], b[5] * 256 + b[6], b[3] * 256 + b[4], b[1] * 256 + b[2]>>)

RECURSIVE FloatSyntax(_, _, _, _)
\* whether s[j..] is digits with at most one '.', and at least one digit overall
FloatSyntax(s, j, dot, digits) ==
    IF j > Len(s) THEN digits
    ELSE IF IsDigit(s[j]) THEN FloatSyntax(s, j + 1, dot, TRUE)
    ELSE IF s[j] = 46 /\ ~dot THEN FloatSyntax(s, j + 1, TRUE, digits)
    ELSE FALSE

textReal(c) ==
    IF Len(c) = 0 THEN Ok(F0)
    ELSE LET from == IF c[1] \in {chMinus, chPlus} THEN 2 ELSE 1
         IN  IF FloatSyntax(c, from, FALSE, FALSE)
             THEN Ok([src |-> "ParseFloat", data |-> c])
             ELSE Err(DecodeErr("strconv.ErrSyntax", c))

textInteger(c) == Atoi(c)

sTrue == <<116, 114, 117, 101>>
sFalse == <<102, 97, 108, 115, 101>>

textBoolean(c) ==
    IF Len(c) = 0 THEN Ok(FALSE)
    ELSE IF c = <<49>> \/ c = sTrue THEN Ok(TRUE)
    ELSE IF c = <<48>> \/ c = sFalse THEN Ok(FALSE)
    ELSE Err(DecodeErr("Invalid boolean value", c))

\* time.Parse(time.RFC3339, c): the model's dates are "Z" followed by digits
textDate(c) ==
    IF Len(c) = 0 THEN Ok(Epoch)
    ELSE IF c[1] = 90 /\ Atoi(Tail(c)).st = "ok"
         THEN Ok([src |-> "time.Parse", data |-> c, unix |-> Atoi(Tail(c)).v])
         ELSE Err(DecodeErr("time.ParseError", c))

binaryReal(b) ==
    IF Len(b) = 0 THEN Ok(F0)
    ELSE LET r == BigEndianUint64(b)
         IN  IF r.st # "ok" THEN r
             ELSE Ok([src |-> "Float64frombits", data |-> r.v])

binaryInteger(b) == BigEndianUint32(b)

binaryBoolean(b) == Ok(Len(b) > 1)

binaryDate(b) ==
    LET r == binaryInteger(b)
    IN  IF r.st # "ok" THEN r
        ELSE Ok([src |-> "time.Unix", data |-> b, unix |-> r.v])

(***************************************************************************)
(* The text encodings of a binary payload (encoding/hex, encoding/base64,  *)
(* encoding/ascii85 as textDecoder.binary calls them).                     *)
(***************************************************************************)
Base16 == "base16"
Base64 == "base64"
Base85 == "base85"

\* n zero bytes: make([]byte, n)
Zeros(n) == [j \in 1..n |-> 0]

\* copy of `out` over the front of buf (out is never longer than buf here)
Over(buf, out) == [j \in 1..Len(buf) |-> IF j <= Len(out) THEN out[j] ELSE buf[j]]

\* encoding/hex reverseHexTable: the value of a hex digit, 255 for any other byte
FromHexChar(c) ==
    IF c >= 48 /\ c <= 57 THEN c - 48
    ELSE IF c >= 97 /\ c <= 102 THEN c - 87
    ELSE IF c >= 65 /\ c <= 70 THEN c - 55
    ELSE 255

RECURSIVE HexPairs(_, _, _)
\* the pair loop of hex.Decode from src[j-1], src[j] on
HexPairs(src, j, out) ==
    IF j > Len(src)
    THEN (IF Len(src) % 2 = 1
          THEN (IF FromHexChar(src[Len(src)]) > 15
                THEN Err(DecodeErr("hex.InvalidByteError", src))
                ELSE Err(DecodeErr("hex.ErrLength", src)))
          ELSE Ok(out))
    ELSE IF FromHexChar(src[j - 1]) > 15 \/ FromHexChar(src[j]) > 15
         THEN Err(DecodeErr("hex.InvalidByteError", src))
         ELSE HexPairs(src, j + 2, Append(out, FromHexChar(src[j - 1]) * 16 + FromHexChar(src[j])))

\* dst := make([]byte, hex.DecodedLen(len(c))); _, err := hex.Decode(dst, c)
HexDecode(c) ==
    LET r == HexPairs(c, 2, <<>>)
    IN  IF r.st # "ok" THEN r ELSE Ok(Over(Zeros(Len(c) \div 2), r.v))

\* the value of a character of the standard base64 alphabet, 255 for any other byte
B64Val(c) ==
    IF c >= 65 /\ c <= 90 THEN c - 65
    ELSE IF c >= 97 /\ c <= 122 THEN c - 71
    ELSE IF c >= 48 /\ c <= 57 THEN c + 4
    ELSE IF c = 43 THEN 62
    ELSE IF c = 47 THEN 63
    ELSE 255

RECURSIVE B64Quanta(_, _, _)
\* base64.StdEncoding.Decode from the quantum at src[j] on (no line breaks in src)
B64Quanta(src, j, out) ==
    IF j > Len(src) THEN Ok(out)
    ELSE IF j + 3 > Len(src) THEN Err(DecodeErr("base64.CorruptInputError", src))
    ELSE LET v1 == B64Val(src[j])
             v2 == B64Val(src[j + 1])
             v3 == B64Val(src[j + 2])
             v4 == B64Val(src[j + 3])
             last == j + 3 = Len(src)
         IN  IF v1 = 255 \/ v2 = 255 THEN Err(DecodeErr("base64.CorruptInputError", src))
             ELSE IF src[j + 2] = 61
                  THEN (IF src[j + 3] = 61 /\ last
                        THEN Ok(Append(out, v1 * 4 + (v2 \div 16)))
                        ELSE Err(DecodeErr("base64.CorruptInputError", src)))
             ELSE IF v3 = 255 THEN Err(DecodeErr("base64.CorruptInputError", src))
             ELSE IF src[j + 3] = 61
                  THEN (IF last
                        THEN Ok(out \o <<v1 * 4 + (v2 \div 16), (v2 % 16) * 16 + (v3 \div 4)>>)
                        ELSE Err(DecodeErr("base64.CorruptInputError", src)))
             ELSE IF v4 = 255 THEN Err(DecodeErr("base64.CorruptInputError", src))
             ELSE B64Quanta(src, j + 4,
                     out \o <<v1 * 4 + (v2 \div 16), (v2 % 16) * 16 + (v3 \div 4), (v3 % 4) * 64 + v4>>)

\* dst := make([]byte, base64.StdEncoding.DecodedLen(len(c))); _, err := Decode(dst, c)
Base64Decode(c) ==
    LET r == B64Quanta(c, 1, <<>>)
    IN  IF r.st # "ok" THEN r ELSE Ok(Over(Zeros((Len(c) \div 4) * 3), r.v))

\* a uint32 as <<low limb, high limb>>: v * 85 + d, wrapping at 32 bits
U32MulAdd85(v, d) ==
    LET a0 == v[1] * 85 + d
        a1 == v[2] * 85 + (a0 \div Limb)
    IN  <<a0 % Limb, a1 % Limb>>

\* the four bytes of a uint32, most significant first
U32Bytes(v) == <<v[2] \div 256, v[2] % 256, v[1] \div 256, v[1] % 256>>

RECURSIVE A85Pad(_, _)
\* for i := nb; i < 5; i++ { v = v*85 + 84 }
A85Pad(v, nb) == IF nb >= 5 THEN v ELSE A85Pad(U32MulAdd85(v, 84), nb + 1)

RECURSIVE A85Loop(_, _, _, _, _, _)
\* ascii85.Decode(dst, src, true) from src[j] on; out is dst[:ndst], room is len(dst)
A85Loop(src, j, v, nb, out, room) ==
    IF j > Len(src)
    THEN (IF nb = 0 THEN Ok(out)
          ELSE IF nb = 1 THEN Err(DecodeErr("ascii85.CorruptInputError", src))
          ELSE Ok(out \o SubSeq(U32Bytes(A85Pad(v, nb)), 1, nb - 1)))
    ELSE IF room - Len(out) < 4 THEN Ok(out)
    ELSE IF src[j] <= 32 THEN A85Loop(src, j + 1, v, nb, out, room)
    ELSE IF src[j] = 122 /\ nb = 0 THEN A85Loop(src, j + 1, <<0, 0>>, 0, out \o <<0, 0, 0, 0>>, room)
    ELSE IF src[j] >= 33 /\ src[j] <= 117
         THEN LET w == U32MulAdd85(v, src[j] - 33)
              IN  IF nb + 1 = 5
                  THEN A85Loop(src, j + 1, <<0, 0>>, 0, out \o U32Bytes(w), room)
                  ELSE A85Loop(src, j + 1, w, nb + 1, out, room)
    ELSE Err(DecodeErr("ascii85.CorruptInputError", src))

\* ascii85.MaxEncodedLen(n)
A85MaxEncodedLen(n) == ((n + 3) \div 4) * 5

\* dst := make([]byte, ascii85.MaxEncodedLen(len(c))); _, _, err := ascii85.Decode(dst, c, true)
Ascii85Decode(c) ==
    LET room == A85MaxEncodedLen(Len(c))
        r == A85Loop(c, 1, <<0, 0>>, 0, <<>>, room)
    IN  IF r.st # "ok" THEN r ELSE Ok(Over(Zeros(room), r.v))

textBinary(c, encoding) ==
    IF Len(c) = 0 THEN Ok(c)
    ELSE CASE encoding \in {Base16, ""} -> HexDecode(c)
           [] encoding = Base64 -> Base64Decode(c)
           [] encoding = Base85 -> Ascii85Decode(c)
           [] OTHER -> Err(DecodeErr("Unknown encoding", c))

binaryBinary(b, encoding) == Ok(b)

(***************************************************************************)
(* The encoders of the standard library the XML encoder writes with.       *)
(***************************************************************************)
\* encoding/hex hextable, "0123456789abcdef"
HexChar(n) == IF n < 10 THEN 48 + n ELSE 87 + n

RECURSIVE EncodeToString(_)
\* hex.EncodeToString(b)
EncodeToString(b) ==
    IF Len(b) = 0 THEN <<>>
    ELSE <<HexChar(b[1] \div 16), HexChar(b[1] % 16)>> \o EncodeToString(Tail(b))

\* strings.ToUpper(s) for a string of ASCII
ToUpper(s) == [j \in 1..Len(s) |-> IF s[j] >= 97 /\ s[j] <= 122 THEN s[j] - 32 ELSE s[j]]

\* the character of a value in the standard base64 alphabet
B64Char(n) ==
    IF n < 26 THEN 65 + n
    ELSE IF n < 52 THEN 71 + n
    ELSE IF n < 62 THEN n - 4
    ELSE IF n = 62 THEN 43
    ELSE 47

RECURSIVE Base64Encode(_)
\* base64.StdEncoding.EncodeToString(b): quanta of three bytes, '=' padding
Base64Encode(b) ==
    IF Len(b) = 0 THEN <<>>
    ELSE IF Len(b) = 1
         THEN <<B64Char(b[1] \div 4), B64Char((b[1] % 4) * 16), 61, 61>>
    ELSE IF Len(b) = 2
         THEN <<B64Char(b[1] \div 4), B64Char((b[1] % 4) * 16 + (b[2] \div 16)),
                B64Char((b[2] % 16) * 4), 61>>
    ELSE <<B64Char(b[1] \div 4), B64Char((b[1] % 4) * 16 + (b[2] \div 16)),
           B64Char((b[2] % 16) * 4 + (b[3] \div 64)), B64Char(b[3] % 64)>>
         \o Base64Encode(SubSeq(b, 4, Len(b)))

\* a uint32 as <<low limb, high limb>>: <<v / 85, v % 85>>
U32DivMod85(v) ==
    LET t == (v[2] % 85) * Limb + v[1]
    IN  <<<<(t \div 85) % Limb, (v[2] \div 85) + ((t \div 85) \div Limb)>>, t % 85>>

\* `for i := 4; i >= 0; i-- { dst[i] = '!' + byte(v%85); v /= 85 }`
A85Digits(v) ==
    LET d5 == U32DivMod85(v)
        d4 == U32DivMod85(d5[1])
        d3 == U32DivMod85(d4[1])
        d2 == U32DivMod85(d3[1])
        d1 == U32DivMod85(d2[1])
    IN  <<33 + d1[2], 33 + d2[2], 33 + d3[2], 33 + d4[2], 33 + d5[2]>>

\* the uint32 that ascii85.Encode packs the next (up to four) bytes of src into
A85Pack(src) ==
    LET b(j) == IF j <= Len(src) THEN src[j] ELSE 0
    IN  <<b(3) * 256 + b(4), b(1) * 256 + b(2)>>

RECURSIVE A85Encode(_, _, _)
\* ascii85.Encode(dst, src) on the buffer buf with buf[at+1..] the part not yet passed: every
\* group writes its five digits, a short last group passes fewer of them,
\* a group of four zero bytes writes and passes the single 'z'
A85Encode(buf, at, src) ==
    IF Len(src) = 0 THEN buf
    ELSE IF A85Pack(src) = <<0, 0>> /\ Len(src) >= 4
         THEN A85Encode([buf EXCEPT ![at + 1] = 122, ![at + 2] = 0, ![at + 3] = 0,
                                    ![at + 4] = 0, ![at + 5] = 0],
                        at + 1, SubSeq(src, 5, Len(src)))
    ELSE LET d == A85Digits(A85Pack(src))
             to == [buf EXCEPT ![at + 1] = d[1], ![at + 2] = d[2], ![at + 3] = d[3],
                               ![at + 4] = d[4], ![at + 5] = d[5]]
         IN  IF Len(src) < 4 THEN to
             ELSE A85Encode(to, at + 5, SubSeq(src, 5, Len(src)))

\* encoding/xml EscapeText, one byte of ASCII: the entity of a markup
\* character, U+FFFD for a byte outside the XML character range, else itself
EscapeByte(c) ==
    CASE c = 34 -> <<38, 35, 51, 52, 59>>
      [] c = 39 -> <<38, 35, 51, 57, 59>>
      [] c = 38 -> <<38, 97, 109, 112, 59>>
      [] c = 60 -> <<38, 108, 116, 59>>
      [] c = 62 -> <<38, 103, 116, 59>>
      [] c = 9 -> <<38, 35, 120, 57, 59>>
      [] c = 10 -> <<38, 35, 120, 65, 59>>
      [] c = 13 -> <<38, 35, 120, 68, 59>>
      [] c < 32 \/ c > 127 -> <<239, 191, 189>>
      [] OTHER -> <<c>>

RECURSIVE EscapeText(_)
\* xml.EscapeText(w, s) for a string of single bytes
EscapeText(s) == IF Len(s) = 0 THEN <<>> ELSE EscapeByte(s[1]) \o EscapeText(Tail(s))

RECURSIVE Unescape(_)
\* what encoding/xml hands back as the character data of escaped text: the
\* entities EscapeText writes stand for their characters again
Unescape(s) ==
    IF Len(s) = 0 THEN <<>>
    ELSE IF s[1] # 38 THEN <<s[1]>> \o Unescape(Tail(s))
    ELSE LET semi == CHOOSE j \in 1..Len(s) : s[j] = 59 /\ \A h \in 1..(j - 1) : s[h] # 59
             name == SubSeq(s, 2, semi - 1)
             c == CASE name = <<35, 51, 52>> -> 34
                    [] name = <<35, 51, 57>> -> 39
                    [] name = <<97, 109, 112>> -> 38
                    [] name = <<108, 116>> -> 60
                    [] name = <<103, 116>> -> 62
                    [] name = <<35, 120, 57>> -> 9
                    [] name = <<35, 120, 65>> -> 10
                    [] name = <<35, 120, 68>> -> 13
         IN  <<c>> \o Unescape(SubSeq(s, semi + 1, Len(s)))

(***************************************************************************)
(* Tokens.                                                                 *)
(***************************************************************************)
NoAttr == [has |-> FALSE, encoding |-> ""]
Tk(kind) == [k |-> kind, name |-> <<>>, type |-> "", data |-> <<>>, attr |-> NoAttr]
MapStartT == Tk("MapStart")
MapEndT == Tk("MapEnd")
ArrayStartT == Tk("ArrayStart")
ArrayEndT == Tk("ArrayEnd")
DocumentStartT == Tk("DocumentStart")
DocumentEndT == Tk("DocumentEnd")
\* a value that is no token of the package, such as the int of TestNoStartDocument
IntT == Tk("int")
\* u.tok before the first read
NilT == Tk("nil")
KeyT(name) == [Tk("Key") EXCEPT !.name = name]
ScalarT(type, data) == [Tk("Scalar") EXCEPT !.type = type, !.data = data]
ScalarEnc(type, data, enc) ==
    [Tk("Scalar") EXCEPT !.type = type, !.data = data, !.attr = [has |-> TRUE, encoding |-> enc]]

\* ScalarType.String()
Label(type) ==
    CASE type = "Undefined" -> "undef"
      [] type = "Boolean" -> "boolean"
      [] type = "Integer" -> "integer"
      [] type = "Real" -> "real"
      [] type = "UUIDType" -> "uuid"
      [] type = "String" -> "string"
      [] type = "Binary" -> "binary"
      [] type = "Date" -> "date"
      [] type = "URI" -> "uri"

(***************************************************************************)
(* Unmarshaler.scalar.                                                     *)
(***************************************************************************)
NoErr == [e |-> "nil"]

\* what a function of the Unmarshaler leaves behind: the destination as it
\* now is, and the error it returns (NoErr for nil)
Res(v, err) == [v |-> v, err |-> err]

\* reflect's assignability of a value of type vty to a destination of type dty
Assignable(vty, dty) == vty = dty \/ dty.k = "interface"

\* v.Set(x)
SetValue(v, x) ==
    IF ~Assignable(x.ty, v.ty) THEN Res(v, Panic("reflect.Set: value not assignable"))
    ELSE IF v.ty.k = "interface" THEN Res([v EXCEPT !.dyn = x], NoErr)
    ELSE Res(x, NoErr)

\* v.OverflowInt(w)
OverflowInt(v, w) == WTrunc(w, BitSize(v.ty.k)) # w

\* v.SetInt(w)
SetInt(v, w) == [v EXCEPT !.i = WTrunc(w, BitSize(v.ty.k))]

\* v.SetUint(w)
SetUint(v, w) ==
    [v EXCEPT !.i = CASE v.ty.k = "uint8" -> <<w[1] % 256, 0, 0, 0>>
                      [] v.ty.k = "uint32" -> <<w[1], w[2], 0, 0>>
                      [] OTHER -> w]

RECURSIVE IntDigits(_, _)
\* the number of digits of c before the first '.'
IntDigits(c, j) ==
    IF j > Len(c) \/ c[j] = 46 THEN 0
    ELSE (IF IsDigit(c[j]) THEN 1 ELSE 0) + IntDigits(c, j + 1)

\* v.OverflowFloat(f): a float32 cannot hold a magnitude of 40 digits or more
OverflowFloat(v, f) ==
    v.ty.k = "float32" /\ f.src = "ParseFloat" /\ IntDigits(f.data, 1) >= 40

\* the scalar decoder the Unmarshaler was built with
decReal(text, c) == IF text THEN textReal(c) ELSE binaryReal(c)
decInteger(text, c) == IF text THEN textInteger(c) ELSE binaryInteger(c)
decBoolean(text, c) == IF text THEN textBoolean(c) ELSE binaryBoolean(c)
decDate(text, c) == IF text THEN textDate(c) ELSE binaryDate(c)
decBinary(text, c, enc) == IF text THEN textBinary(c, enc) ELSE binaryBinary(c, enc)

TypeErr(v, tk, offset) == Res(v, UnmarshalTypeError(Label(tk.type), tk.data, v.ty, offset))
TooFew(v, tk, offset) == Res(v, UnmarshalTypeError("binary (too few bytes)", tk.data, v.ty, offset))

\* case Real
ScalarReal(v, tk, text, offset) ==
    LET r == decReal(text, tk.data)
    IN  CASE v.ty.k \in FloatKinds ->
               IF r.st # "ok" THEN Res(v, r.err)
               ELSE IF OverflowFloat(v, r.v) THEN TypeErr(v, tk, offset)
               ELSE Res([v EXCEPT !.f = r.v], NoErr)
          [] v.ty.k = "interface" ->
               IF r.st # "ok" THEN Res(v, r.err)
               ELSE SetValue(v, [ty |-> TFloat64, f |-> r.v])
          [] OTHER -> TypeErr(v, tk, offset)

IntegerAny(v, w) == SetValue(v, [ty |-> TInt32, i |-> WTrunc(w, 32)])
IntegerSigned(v, tk, w, offset) ==
    IF OverflowInt(v, w) THEN TypeErr(v, tk, offset) ELSE Res(SetInt(v, w), NoErr)

\* case Integer
ScalarInteger(v, tk, text, offset) ==
    LET r == decInteger(text, tk.data)
    IN  CASE v.ty.k \in SignedKinds ->
               IF r.st # "ok" THEN Res(v, r.err) ELSE IntegerSigned(v, tk, r.v, offset)
          [] v.ty.k = "interface" ->
               IF r.st # "ok" THEN Res(v, r.err) ELSE IntegerAny(v, r.v)
          [] OTHER -> TypeErr(v, tk, offset)

\* case URI
ScalarURI(v, tk, text, offset) == SetValue(v, VStr(TURL, tk.data))

\* case String
ScalarString(v, tk, text, offset) ==
    IF v.ty.k \in {"string", "interface"} THEN SetValue(v, VStr(TString, tk.data))
    ELSE TypeErr(v, tk, offset)

\* case Boolean
ScalarBoolean(v, tk, text, offset) ==
    LET r == decBoolean(text, tk.data)
    IN  CASE v.ty.k \in {"bool", "interface"} ->
               IF r.st # "ok" THEN Res(v, r.err) ELSE SetValue(v, VBool(r.v))
          [] v.ty.k = "string" ->
               IF r.st # "ok" THEN Res(v, r.err)
               ELSE Res([v EXCEPT !.s = IF r.v THEN sTrue ELSE sFalse], NoErr)
          [] OTHER -> TypeErr(v, tk, offset)

\* reflect.Copy(v, reflect.ValueOf(value)) into a byte array
CopyBytes(v, value) ==
    [v EXCEPT !.arr = [j \in 1..Len(v.arr) |->
        IF j <= Len(value) THEN [ty |-> TUint8, i |-> <<value[j], 0, 0, 0>>] ELSE v.arr[j]]]

\* case Binary
ScalarBinary(v, tk, text, offset) ==
    LET encoding == IF text THEN (IF tk.attr.has THEN tk.attr.encoding ELSE Base16) ELSE ""
        r == decBinary(text, tk.data, encoding)
        value == r.v
        u32 == BigEndianUint32(value)
        u64 == BigEndianUint64(value)
    IN  IF r.st # "ok" THEN Res(v, r.err)
        ELSE CASE v.ty.k \in {"slice", "array"} ->
                    IF v.ty.elem.k # "uint8" THEN TypeErr(v, tk, offset)
                    ELSE IF v.ty.k = "array" THEN Res(CopyBytes(v, value), NoErr)
                    ELSE SetValue(v, VBytes(value))
               [] v.ty.k = "interface" -> SetValue(v, VBytes(value))
               [] v.ty.k = "string" -> Res([v EXCEPT !.s = value], NoErr)
               [] v.ty.k = "bool" -> Res([v EXCEPT !.b = Len(tk.data) > 0], NoErr)
               [] v.ty.k \in {"uint", "uint32"} ->
                    IF Len(value) < 4 THEN TooFew(v, tk, offset)
                    ELSE Res(SetUint(v, u32.v), NoErr)
               [] v.ty.k = "float32" ->
                    IF u32.st # "ok" THEN Res(v, Panic("slice bounds out of range"))
                    ELSE Res([v EXCEPT !.f = [src |-> "Float32frombits", data |-> u32.v]], NoErr)
               [] v.ty.k \in {"int", "int32"} ->
                    IF Len(value) < 4 THEN TooFew(v, tk, offset)
                    ELSE Res(SetInt(v, u32.v), NoErr)
               [] v.ty.k = "int64" ->
                    IF Len(value) < 8 THEN TooFew(v, tk, offset)
                    ELSE Res(SetInt(v, u64.v), NoErr)
               [] v.ty.k = "uint64" ->
                    IF Len(value) < 8 THEN TooFew(v, tk, offset)
                    ELSE Res(SetUint(v, u64.v), NoErr)
               [] v.ty.k = "float64" ->
                    IF Len(value) < 8 THEN TooFew(v, tk, offset)
                    ELSE Res([v EXCEPT !.f = [src |-> "Float64frombits", data |-> u64.v]], NoErr)
               [] OTHER -> TypeErr(v, tk, offset)

\* case Date
ScalarDate(v, tk, text, offset) ==
    LET r == decDate(text, tk.data)
    IN  CASE v.ty.k \in FloatKinds ->
               IF r.st # "ok" THEN Res(v, r.err)
               ELSE IF OverflowFloat(v, [src |-> "float64(Unix)", data |-> r.v.unix])
               THEN TypeErr(v, tk, offset)
               ELSE Res([v EXCEPT !.f = [src |-> "float64(Unix)", data |-> r.v.unix]], NoErr)
          [] v.ty.k \in SignedKinds ->
               IF r.st # "ok" THEN Res(v, r.err)
               ELSE IF OverflowInt(v, r.v.unix) THEN TypeErr(v, tk, offset)
               ELSE Res(SetInt(v, r.v.unix), NoErr)
          [] v.ty.k = "string" -> Res([v EXCEPT !.s = tk.data], NoErr)
          [] v.ty.k = "interface" ->
               IF r.st # "ok" THEN Res(v, r.err)
               ELSE SetValue(v, [ty |-> TTime, t |-> r.v])
          [] OTHER ->
               IF v.ty # TTime THEN TypeErr(v, tk, offset)
               ELSE IF r.st # "ok" THEN Res(v, r.err)
               ELSE SetValue(v, [ty |-> TTime, t |-> r.v])

\* the switch on tok.Type, on a destination that is no longer a pointer to follow
ScalarSwitch(v, tk, text, offset) ==
    CASE tk.type = "Real" -> ScalarReal(v, tk, text, offset)
      [] tk.type = "Integer" -> ScalarInteger(v, tk, text, offset)
      [] tk.type = "URI" -> ScalarURI(v, tk, text, offset)
      [] tk.type = "String" -> ScalarString(v, tk, text, offset)
      [] tk.type = "Boolean" -> ScalarBoolean(v, tk, text, offset)
      [] tk.type = "Binary" -> ScalarBinary(v, tk, text, offset)
      [] tk.type = "Date" -> ScalarDate(v, tk, text, offset)
      [] tk.type = "Undefined" -> Res(v, NoErr)
      [] OTHER -> Res(v, NoErr)

\* does v.Interface() implement TextUnmarshaler: the pointer to a csv does
HasTextHook(v) == v.ty.k = "ptr" /\ v.ty.elem = TCsv

\* csv.UnmarshalTextLLSD through the pointer v: append the payload's fields
\* (the model's payloads hold no comma, so one field)
CsvHook(v, data) ==
    IF v.isnil THEN Res(v, Panic("nil pointer dereference"))
    ELSE Res([v EXCEPT !.elem.arr = Append(SubSeq(@, 1, v.elem.len), VStr(TString, data)),
                       !.elem.len = @ + 1,
                       !.elem.cap = v.elem.len + 1], NoErr)

\* `if v.Kind() == reflect.Pointer { if v.IsNil() { v.Set(reflect.New(...)) }; v = v.Elem() }`
Deref(v) == IF v.ty.k = "ptr" THEN (IF v.isnil THEN Zero(v.ty.elem) ELSE v.elem) ELSE v

\* the pointer v after scalar worked on what it points to and left r
Through(v, r) == Res([v EXCEPT !.isnil = FALSE, !.elem = r.v], r.err)

\* Unmarshaler.scalar without its `if tok.Type == Undefined { return nil }`:
\* an Undefined scalar allocates the pointee like any other scalar
ScalarAllocatesOnUndef(v, tk, text, offset) ==
    IF text /\ HasTextHook(v) THEN CsvHook(v, tk.data)
    ELSE IF v.ty.k = "ptr" THEN Through(v, ScalarSwitch(Deref(v), tk, text, offset))
    ELSE ScalarSwitch(v, tk, text, offset)

\* Unmarshaler.scalar
Scalar(v, tk, text, offset) ==
    IF text /\ HasTextHook(v) THEN CsvHook(v, tk.data)
    ELSE IF v.ty.k = "ptr"
    THEN (IF tk.type = "Undefined" THEN Res(v, NoErr)
          ELSE Through(v, ScalarSwitch(Deref(v), tk, text, offset)))
    ELSE ScalarSwitch(v, tk, text, offset)

(***************************************************************************)
(* Field tags and the field table of a record type.                        *)
(***************************************************************************)
chComma == 44
sHyphen == <<chMinus>>
sOmitEmpty == <<111, 109, 105, 116, 101, 109, 112, 116, 121>>
sBase16 == <<98, 97, 115, 101, 49, 54>>
sBase64 == <<98, 97, 115, 101, 54, 52>>
sBase85 == <<98, 97, 115, 101, 56, 53>>

RECURSIVE Split(_, _)
\* strings.Split(t, sep) for a one-byte separator
Split(t, sep) ==
    IF \A j \in 1..Len(t) : t[j] # sep THEN <<t>>
    ELSE LET at == CHOOSE j \in 1..Len(t) : t[j] = sep /\ \A h \in 1..(j - 1) : t[h] # sep
         IN  <<SubSeq(t, 1, at - 1)>> \o Split(SubSeq(t, at + 1, Len(t)), sep)

\* the tag struct
Tag(name, omit, omitEmpty, encoding) ==
    [Name |-> name, Omit |-> omit, OmitEmpty |-> omitEmpty, Encoding |-> encoding]

RECURSIVE TagOptions(_, _, _)
\* the loop over values[1:]: <<omitEmpty, encoding>> after the options from j on
TagOptions(values, j, acc) ==
    IF j > Len(values) THEN acc
    ELSE TagOptions(values, j + 1,
            CASE values[j] = sOmitEmpty -> <<TRUE, acc[2]>>
              [] values[j] = sBase16 -> <<acc[1], Base16>>
              [] values[j] = sBase64 -> <<acc[1], Base64>>
              [] values[j] = sBase85 -> <<acc[1], Base85>>
              [] OTHER -> acc)

\* parseTag deciding omission on the name part: "-," and "-,omitempty"
\* omit the field like "-" does
parseTagOmitsOnNamePart(t, name) ==
    IF t = <<>> THEN Tag(name, FALSE, FALSE, "")
    ELSE IF Split(t, chComma)[1] = sHyphen THEN Tag(name, TRUE, FALSE, "")
    ELSE Tag(IF Split(t, chComma)[1] # <<>> THEN Split(t, chComma)[1] ELSE name, FALSE,
             TagOptions(Split(t, chComma), 2, <<FALSE, Base16>>)[1],
             TagOptions(Split(t, chComma), 2, <<FALSE, Base16>>)[2])

\* parseTag(t, name)
parseTag(t, name) ==
    IF t = <<>> THEN Tag(name, FALSE, FALSE, "")
    ELSE IF t = sHyphen THEN Tag(name, TRUE, FALSE, "")
    ELSE LET values == Split(t, chComma)
             opts == TagOptions(values, 2, <<FALSE, Base16>>)
         IN  Tag(IF values[1] # <<>> THEN values[1] ELSE name, FALSE, opts[1], opts[2])

\* the tag of field j of record type ty, as fieldsForType parses it
FieldTag(ty, j) ==
    parseTag(IF ty.fields[j].llsd = <<>> THEN ty.fields[j].json ELSE ty.fields[j].llsd,
             ty.fields[j].Name)

\* fieldsForType(ty): the map from tag name to field; a later field of the
\* same name replaces an earlier one.  0 stands for "no such key".
fieldsForType(ty) ==
    [key \in {FieldTag(ty, j).Name : j \in 1..Len(ty.fields)} |->
        CHOOSE j \in 1..Len(ty.fields) :
            /\ FieldTag(ty, j).Name = key
            /\ \A h \in (j + 1)..Len(ty.fields) : FieldTag(ty, h).Name # key]

\* the fieldInfoMap fieldsForType(ty) returns: tag name to fieldInfo{field, tag}
fieldInfoMap(ty) ==
    [key \in DOMAIN fieldsForType(ty) |->
        [Index |-> fieldsForType(ty)[key], LLSDTag |-> FieldTag(ty, fieldsForType(ty)[key])]]

\* cachedFieldsForType(ty): a single caller always gets fieldsForType(ty)
cachedFieldsForType(ty) == fieldsForType(ty)

(***************************************************************************)
(* The token readers.                                                      *)
(***************************************************************************)
EOF == ReaderErr("EOF")

\* what one call of TokenReader.Token() does: the token and error it returns
\* and the reader's state afterwards
Read(t, err, rest, offset) == [t |-> t, err |-> err, input |-> rest, off |-> offset]

\* mockTokenReader.Token over the tokens the test supplies one by one: the
\* list is over (io.EOF), or its next element is any token of the alphabet or
\* an error value; the list is at most MaxTokens long
MockReads(alphabet, errors, taken, offset) ==
    {Read(NilT, EOF, <<>>, offset)}
    \cup (IF taken >= MaxTokens THEN {}
          ELSE {Read(t, NoErr, <<>>, offset + 1) : t \in alphabet}
               \cup {Read(NilT, ReaderErr(e), <<>>, offset + 1) : e \in errors})

\* BinaryHeader
BinaryHeader == <<60, 63, 108, 108, 115, 100, 47, 98, 105, 110, 97, 114, 121, 63, 62, 10>>

\* BinaryScanner.read(num) over a bytes.Reader holding `bytes`: the buffer,
\* the error, and the bytes left
BinRead(bytes, num) ==
    IF Len(bytes) = 0 THEN [buf |-> Zeros(num), err |-> EOF, rest |-> bytes]
    ELSE [buf |-> Over(Zeros(num), SubSeq(bytes, 1, IF num < Len(bytes) THEN num ELSE Len(bytes))),
          err |-> NoErr,
          rest |-> SubSeq(bytes, (IF num < Len(bytes) THEN num ELSE Len(bytes)) + 1, Len(bytes))]

\* binary.BigEndian.Uint32(buf) as a length (the model's lengths are small)
SizeOf(buf) == ((buf[1] * 256 + buf[2]) * 256 + buf[3]) * 256 + buf[4]

\* the token BinaryScanner.Token makes of the op code and its payload
BinToken(op, buf) ==
    CASE op = 105 -> ScalarT("Integer", buf)
      [] op = 114 -> ScalarT("Real", buf)
      [] op = 117 -> ScalarT("UUIDType", buf)
      [] op = 98 -> ScalarT("Binary", buf)
      [] op = 115 -> ScalarT("String", buf)
      [] op = 100 -> ScalarT("Date", buf)
      [] op = 107 -> KeyT(buf)
      [] op = 123 -> MapStartT
      [] op = 91 -> ArrayStartT

\* `buf, err := s.read(n); return tok(buf), err`, r being what s.read(n) gave
Payload(op, r, offset) == Read(BinToken(op, r.buf), r.err, r.rest, offset)

\* `buf, err := s.read(4); if err != nil { return nil, err }`, r being what
\* s.read(4) gave, then `buf, err = s.read(size); return tok(buf), err`
Sized(op, r, offset) ==
    IF r.err # NoErr THEN Read(NilT, r.err, r.rest, offset)
    ELSE Payload(op, BinRead(r.rest, SizeOf(r.buf)), offset + SizeOf(r.buf))

\* `buf, err := s.read(15)` of the header, r being what it gave: the error, or
\* the offset and bytes to go on from
Header(r, offset) ==
    IF r.err # NoErr THEN Read(NilT, r.err, r.rest, offset)
    ELSE IF <<60>> \o r.buf # BinaryHeader
         THEN Read(NilT, ReaderErr("Invalid LLSD: unrecognized header"), r.rest, offset)
         ELSE Read(NilT, NoErr, r.rest, offset)

\* `buf, err := s.read(4); if err != nil { return nil, err }; return Scalar{Integer, buf}, nil`
IntegerPayload(r, offset) ==
    IF r.err # NoErr THEN Read(NilT, r.err, r.rest, offset)
    ELSE Read(BinToken(105, r.buf), NoErr, r.rest, offset)

RECURSIVE BinaryScannerToken(_, _)
\* BinaryScanner.Token after `op, err := s.read(1)` gave o
AfterOp(o, at) ==
    IF o.err # NoErr THEN Read(NilT, o.err, o.rest, at)
    ELSE CASE o.buf[1] = 105 -> IntegerPayload(BinRead(o.rest, 4), at + 4)
           [] o.buf[1] \in {114, 117, 100, 123, 91} ->
                Payload(o.buf[1], BinRead(o.rest, IF o.buf[1] = 114 THEN 8
                                                   ELSE IF o.buf[1] = 117 THEN 16 ELSE 4),
                        at + (IF o.buf[1] = 114 THEN 8 ELSE IF o.buf[1] = 117 THEN 16 ELSE 4))
           [] o.buf[1] \in {98, 115, 107} -> Sized(o.buf[1], BinRead(o.rest, 4), at + 4)
           [] o.buf[1] = 125 -> Read(MapEndT, NoErr, o.rest, at)
           [] o.buf[1] = 93 -> Read(ArrayEndT, NoErr, o.rest, at)
           [] o.buf[1] = 49 -> Read(ScalarT("Boolean", <<1>>), NoErr, o.rest, at)
           [] o.buf[1] = 48 -> Read(ScalarT("Boolean", <<>>), NoErr, o.rest, at)
           [] o.buf[1] = 33 -> Read(ScalarT("Undefined", <<>>), NoErr, o.rest, at)
           [] o.buf[1] = 60 /\ at = 1 ->
                IF Header(BinRead(o.rest, 15), at + 15).err # NoErr
                THEN Header(BinRead(o.rest, 15), at + 15)
                ELSE BinaryScannerToken(Header(BinRead(o.rest, 15), at + 15).input, at + 15)
           [] OTHER -> Read(NilT, ReaderErr("Invalid LLSD op"), o.rest, at)

\* BinaryScanner.Token
BinaryScannerToken(bytes, offset) == AfterOp(BinRead(bytes, 1), offset + 1)

(***************************************************************************)
(* XMLScanner over the tokens xml.Decoder.Token hands out.  The offset is  *)
(* counted in decoder tokens rather than in bytes of the input.            *)
(***************************************************************************)
StartElement(name, attr) == [x |-> "StartElement", name |-> name, attr |-> attr, data |-> <<>>]
EndElement(name) == [x |-> "EndElement", name |-> name, attr |-> NoAttr, data |-> <<>>]
CharData(data) == [x |-> "CharData", name |-> "", attr |-> NoAttr, data |-> data]
ProcInst == [x |-> "ProcInst", name |-> "", attr |-> NoAttr, data |-> <<>>]
Comment == [x |-> "Comment", name |-> "", attr |-> NoAttr, data |-> <<>>]

\* s.dec.Token(): the next token of the decoder, io.EOF after the last
DecToken(tokens) ==
    IF Len(tokens) = 0 THEN [t |-> CharData(<<>>), err |-> EOF, rest |-> tokens]
    ELSE [t |-> Head(tokens), err |-> NoErr, rest |-> Tail(tokens)]

\* XMLScanner.charData, d being what s.dec.Token() gave
charData(d) ==
    IF d.err # NoErr THEN [b |-> <<>>, err |-> d.err, rest |-> d.rest]
    ELSE CASE d.t.x = "CharData" -> [b |-> d.t.data, err |-> NoErr, rest |-> d.rest]
           [] d.t.x = "EndElement" -> [b |-> <<>>, err |-> NoErr, rest |-> d.rest]
           [] OTHER -> [b |-> <<>>, err |-> ReaderErr("Invalid LLSD: got unexpected token"),
                        rest |-> d.rest]

scalarTypes ==
    [string |-> "String", real |-> "Real", uuid |-> "UUIDType", integer |-> "Integer",
     boolean |-> "Boolean", undef |-> "Undefined", binary |-> "Binary", uri |-> "URI",
     date |-> "Date"]

\* the scanner returns t and err with `rest` left in the decoder
XRead(t, err, rest, tokens, at) == Read(t, err, rest, at + (Len(tokens) - Len(rest)))

\* `_, err = s.dec.Token(); return t, err`, e being what that s.dec.Token() gave
PastEnd(t, e, tokens, at) == XRead(t, e.err, e.rest, tokens, at)

\* case "key", c being what s.charData() gave
KeyStart(c, tokens, at) ==
    IF c.err # NoErr THEN XRead(KeyT(c.b), c.err, c.rest, tokens, at)
    ELSE PastEnd(KeyT(c.b), DecToken(c.rest), tokens, at)

\* the scalar elements, c being what s.charData() gave
ScalarElement(el, c, tokens, at) ==
    IF c.err # NoErr THEN XRead(NilT, c.err, c.rest, tokens, at)
    ELSE PastEnd([Tk("Scalar") EXCEPT !.type = scalarTypes[el.name], !.data = c.b,
                                      !.attr = el.attr],
                 DecToken(c.rest), tokens, at)

RECURSIVE XMLScannerToken(_, _)
\* XMLScanner.Token after `tok, err := s.dec.Token()` gave d
AfterDecToken(d, tokens, at) ==
    IF d.err # NoErr THEN XRead(NilT, d.err, d.rest, tokens, at)
    ELSE CASE d.t.x = "StartElement" ->
                (CASE d.t.name = "array" -> XRead(ArrayStartT, NoErr, d.rest, tokens, at)
                   [] d.t.name = "map" -> XRead(MapStartT, NoErr, d.rest, tokens, at)
                   [] d.t.name = "key" -> KeyStart(charData(DecToken(d.rest)), tokens, at)
                   [] d.t.name = "llsd" -> XRead(DocumentStartT, NoErr, d.rest, tokens, at)
                   [] d.t.name \in DOMAIN scalarTypes ->
                        ScalarElement(d.t, charData(DecToken(d.rest)), tokens, at)
                   [] OTHER -> XRead(NilT, ReaderErr("Unknown LLSD type"), d.rest, tokens, at))
           [] d.t.x = "EndElement" ->
                (CASE d.t.name = "array" -> XRead(ArrayEndT, NoErr, d.rest, tokens, at)
                   [] d.t.name = "map" -> XRead(MapEndT, NoErr, d.rest, tokens, at)
                   [] d.t.name = "llsd" -> XRead(DocumentEndT, NoErr, d.rest, tokens, at)
                   [] OTHER -> XRead(NilT, ReaderErr("Invalid LLSD: unexpected EndElement"),
                                     d.rest, tokens, at))
           [] OTHER -> XMLScannerToken(d.rest, at + (Len(tokens) - Len(d.rest)))

\* XMLScanner.Token
XMLScannerToken(tokens, offset) == AfterDecToken(DecToken(tokens), tokens, offset)

(***************************************************************************)
(* The Unmarshaler: frames of the call stack.                              *)
(*                                                                         *)
(* A frame is one activation of Unmarshal, object or array.  fn says where *)
(* the activation stands: the innermost frame is about to read a token,    *)
(* every other frame is inside the call of value() it made.                *)
(*   "Unmarshal"    Unmarshal, at u.next()                                 *)
(*   "objectKey"    object on a record, at u.token() for the next key      *)
(*   "objectSkip"   object on a record, at u.next() after an unknown key   *)
(*   "objectValue"  object on a record, at u.next() after a known key      *)
(*   "mapKey"       object on a map, at u.token() for the next key         *)
(*   "mapValue"     object on a map, at u.next() after a key               *)
(*   "array"        array, at u.token() for the next element               *)
(*   "arrayAny"     array on an interface, inside u.array(newv)            *)
(***************************************************************************)
Running == [e |-> "running"]

\* v: the value the activation works on (after following a pointer);
\* ptr: whether it reached v through a pointer; idx: the field of the known
\* key; key: the map key; i: the array index; settable: v.CanSet()
Frame(fn, v, ptr) ==
    [fn |-> fn, v |-> v, ptr |-> ptr, idx |-> 0, key |-> <<>>, i |-> 0, settable |-> TRUE]

\* the destination a frame was called with, as it now is
FrameDest(f) == IF f.ptr THEN PtrTo(f.v) ELSE f.v

\* v.Len()
VLen(v) == IF v.ty.k = "slice" THEN v.len ELSE Len(v.arr)

\* the slot a caller's frame handed to value(): reflect.Value{} when the
\* array has no element i
HasSlot(f) == f.fn # "array" \/ (f.v.ty.k \in {"slice", "array"} /\ f.i < VLen(f.v))

\* v.SetMapIndex(key, child)
SetMapIndex(v, key, child) ==
    [v EXCEPT !.m = [x \in (DOMAIN v.m) \cup {key} |-> IF x = key THEN child ELSE v.m[x]]]

\* the frame of a caller with the callee's destination written where the
\* callee wrote it: record fields and array elements are written in place,
\* the slot of a map entry is a temporary and newv is a copy
InPlace(f, child) ==
    CASE f.fn = "Unmarshal" -> [f EXCEPT !.v = child]
      [] f.fn = "objectValue" -> [f EXCEPT !.v.flds[f.idx] = child]
      [] f.fn = "array" /\ HasSlot(f) -> [f EXCEPT !.v.arr[f.i + 1] = child]
      [] OTHER -> f

RECURSIVE Unwind(_, _)
\* the caller's destination as memory holds it, given the frames above the
\* innermost one and the innermost frame's destination
Unwind(callers, child) ==
    IF Len(callers) = 0 THEN child
    ELSE Unwind(SubSeq(callers, 1, Len(callers) - 1),
                FrameDest(InPlace(callers[Len(callers)], child)))

\* the next state of the Unmarshaler's own variables
St(stk, res, d) == [stack |-> stk, result |-> res, dst |-> d]

\* Unmarshal returns err (NoErr for nil) with the frames `callers` above the
\* destination `child` of the innermost one
Return(callers, child, err) == St(<<>>, err, Unwind(callers, child))

\* the Unmarshaler goes on with the frames stk
Continue(stk) ==
    St(stk, Running, Unwind(SubSeq(stk, 1, Len(stk) - 1), FrameDest(stk[Len(stk)])))

\* value() returned nil to the frame f, whose slot now holds child: what f
\* does before its next read
Resume(f, child) ==
    CASE f.fn = "objectValue" -> Res([InPlace(f, child) EXCEPT !.fn = "objectKey"], NoErr)
      [] f.fn = "mapValue" ->
            IF f.v.isnil THEN Res(f, Panic("assignment to entry in nil map"))
            ELSE Res([f EXCEPT !.fn = "mapKey", !.v = SetMapIndex(f.v, f.key, child)], NoErr)
      [] f.fn = "array" -> Res([InPlace(f, child) EXCEPT !.i = f.i + 1], NoErr)
      [] f.fn = "arrayAny" -> Res([f EXCEPT !.fn = "array", !.i = 0], NoErr)
      [] OTHER -> Res(InPlace(f, child), NoErr)

\* the outcome of value(v): it returned nil ("ret") or an error ("err") and
\* left v as given, or it is inside object/array with new frames ("call")
Ret(v) == [o |-> "ret", v |-> v, err |-> NoErr, push |-> <<>>]
Fail(v, err) == [o |-> "err", v |-> v, err |-> err, push |-> <<>>]
Call(frames) == [o |-> "call", v |-> Invalid, err |-> NoErr, push |-> frames]

\* object(v) up to its first read
objectEnter(v, offset) ==
    LET e == Deref(v)
        isptr == v.ty.k = "ptr"
        now == IF isptr THEN PtrTo(e) ELSE v
    IN  CASE e.ty.k = "struct" -> Call(<<Frame("objectKey", e, isptr)>>)
          [] e.ty.k = "map" ->
                IF e.ty.key.k # "string"
                THEN Fail(now, UnmarshalTypeError("map ", <<>>, e.ty, offset))
                ELSE Call(<<Frame("mapKey", e, isptr)>>)
          [] OTHER -> Fail(now, UnmarshalTypeError("object", <<>>, e.ty, offset))

\* reflect.ValueOf([]any{})
EmptyAnySlice == Zero(TSlice(TAny))

\* array(v) up to its first read
arrayEnter(v, offset) ==
    LET e == Deref(v)
        isptr == v.ty.k = "ptr"
        now == IF isptr THEN PtrTo(e) ELSE v
    IN  CASE e.ty.k = "interface" ->
                Call(<<Frame("arrayAny", [e EXCEPT !.dyn = EmptyAnySlice], isptr),
                       [Frame("array", EmptyAnySlice, FALSE) EXCEPT !.settable = FALSE]>>)
          [] e.ty.k \in {"slice", "array"} -> Call(<<Frame("array", e, isptr)>>)
          [] OTHER -> Fail(now, UnmarshalTypeError("array", <<>>, e.ty, offset))

\* `return u.scalar(v)`, r being what scalar left behind
Returned(r) == IF r.err = NoErr THEN Ret(r.v) ELSE Fail(r.v, r.err)

\* Unmarshaler.value with u.tok = t
value(v, t, text, offset) ==
    CASE t.k = "MapStart" -> IF IsValid(v) THEN objectEnter(v, offset) ELSE Ret(v)
      [] t.k = "ArrayStart" -> IF IsValid(v) THEN arrayEnter(v, offset) ELSE Ret(v)
      [] t.k = "Scalar" ->
            IF ~IsValid(v) THEN Ret(v) ELSE Returned(Scalar(v, t, text, offset))
      [] t.k = "nil" -> Fail(v, Panic("nil pointer dereference"))
      [] OTHER -> Fail(v, InvalidLLSDError("unexpected", t.k, offset))

\* the frame f, above the frames `callers`, called value() on its slot and got o
AfterValue(callers, f, o) ==
    CASE o.o = "err" -> Return(Append(callers, f), o.v, o.err)
      [] o.o = "call" -> Continue(Append(callers, f) \o o.push)
      [] o.o = "ret" ->
            LET r == Resume(f, o.v)
            IN  IF r.err # NoErr THEN Return(callers, FrameDest(r.v), r.err)
                ELSE IF f.fn = "Unmarshal" THEN Return(callers, r.v.v, NoErr)
                ELSE Continue(Append(callers, r.v))

\* the innermost frame f, above the frames `callers`, returns nil
ReturnNil(callers, f) ==
    LET caller == callers[Len(callers)]
        below == SubSeq(callers, 1, Len(callers) - 1)
        r == Resume(caller, FrameDest(f))
    IN  IF r.err # NoErr THEN Return(below, FrameDest(r.v), r.err)
        ELSE IF caller.fn = "Unmarshal" THEN Return(below, r.v.v, NoErr)
        ELSE Continue(Append(below, r.v))

(***************************************************************************)
(* The Unmarshaler: what each activation does from one read to the next.   *)
(* rd is the outcome of the read, f the innermost frame, callers the       *)
(* frames above it.                                                        *)
(***************************************************************************)
\* Unmarshal: `if err := u.next(); err != nil { return err }; return u.value(val)`
UnmarshalStep(callers, f, rd, text) ==
    IF rd.err # NoErr THEN Return(callers, FrameDest(f), rd.err)
    ELSE AfterValue(callers, f, value(f.v, rd.t, text, rd.off))

\* the same step without its `if u.DisallowUnknownFields`: an unknown key is
\* skipped whatever the flag says
ObjectKeyIgnoresFlag(callers, f, rd, disallow) ==
    IF rd.err # NoErr THEN Return(callers, FrameDest(f), rd.err)
    ELSE CASE rd.t.k = "Key" ->
                IF rd.t.name \notin DOMAIN cachedFieldsForType(f.v.ty)
                THEN Continue(Append(callers, [f EXCEPT !.fn = "objectSkip"]))
                ELSE Continue(Append(callers,
                        [f EXCEPT !.fn = "objectValue",
                                  !.idx = cachedFieldsForType(f.v.ty)[rd.t.name]]))
           [] rd.t.k = "MapEnd" -> ReturnNil(callers, f)
           [] rd.t.k = "nil" -> Return(callers, FrameDest(f), Panic("nil pointer dereference"))
           [] OTHER -> Return(callers, FrameDest(f),
                          InvalidLLSDError("expected map to start with key, got", rd.t.k, rd.off))

\* object, record case: from u.token() to the lookup of the key
ObjectKeyStep(callers, f, rd, disallow) ==
    IF rd.err # NoErr THEN Return(callers, FrameDest(f), rd.err)
    ELSE CASE rd.t.k = "Key" ->
                LET fields == cachedFieldsForType(f.v.ty)
                IN  IF rd.t.name \notin DOMAIN fields
                    THEN (IF disallow
                          THEN Return(callers, FrameDest(f), UnknownFieldError(rd.t.name))
                          ELSE Continue(Append(callers, [f EXCEPT !.fn = "objectSkip"])))
                    ELSE Continue(Append(callers,
                            [f EXCEPT !.fn = "objectValue", !.idx = fields[rd.t.name]]))
           [] rd.t.k = "MapEnd" -> ReturnNil(callers, f)
           [] rd.t.k = "nil" -> Return(callers, FrameDest(f), Panic("nil pointer dereference"))
           [] OTHER -> Return(callers, FrameDest(f),
                          InvalidLLSDError("expected map to start with key, got", rd.t.k, rd.off))

\* object, record case, unknown key: `if err = u.next(); err != nil { return err }; continue`
ObjectSkipStep(callers, f, rd) ==
    IF rd.err # NoErr THEN Return(callers, FrameDest(f), rd.err)
    ELSE Continue(Append(callers, [f EXCEPT !.fn = "objectKey"]))

\* the same step with the reader's error wrapped instead of returned as it is
ObjectValueWrapsError(callers, f, rd, text) ==
    IF rd.err # NoErr
    THEN Return(callers, FrameDest(f), InvalidLLSDError("read failed", rd.t.k, rd.off))
    ELSE AfterValue(callers, f, value(f.v.flds[f.idx], rd.t, text, rd.off))

\* object, record case, known key: u.next(), then u.value(v.FieldByIndex(field.Index))
ObjectValueStep(callers, f, rd, text) ==
    IF rd.err # NoErr THEN Return(callers, FrameDest(f), rd.err)
    ELSE AfterValue(callers, f, value(f.v.flds[f.idx], rd.t, text, rd.off))

\* object, map case: u.token() for the key
MapKeyStep(callers, f, rd) ==
    IF rd.err # NoErr THEN Return(callers, FrameDest(f), rd.err)
    ELSE CASE rd.t.k = "Key" ->
                Continue(Append(callers, [f EXCEPT !.fn = "mapValue", !.key = rd.t.name]))
           [] rd.t.k = "MapEnd" -> ReturnNil(callers, f)
           [] rd.t.k = "nil" -> Return(callers, FrameDest(f), Panic("nil pointer dereference"))
           [] OTHER -> Return(callers, FrameDest(f),
                          InvalidLLSDError("expected map to start with key, got", rd.t.k, rd.off))

\* object, map case: a fresh slot, u.next(), u.value(subv), v.SetMapIndex(key, subv)
MapValueStep(callers, f, rd, text) ==
    IF rd.err # NoErr THEN Return(callers, FrameDest(f), rd.err)
    ELSE AfterValue(callers, f, value(Zero(f.v.ty.elem), rd.t, text, rd.off))

\* the "grow slice" block of array: the frame afterwards, or a panic
Grow(f) ==
    LET v == f.v
        newcap == IF v.cap + (v.cap \div 2) < 4 THEN 4 ELSE v.cap + (v.cap \div 2)
        grown == IF f.i >= v.cap
                 THEN [v EXCEPT !.cap = newcap,
                                !.arr = [j \in 1..newcap |->
                                            IF j <= v.len THEN v.arr[j] ELSE Zero(v.ty.elem)]]
                 ELSE v
    IN  IF v.ty.k # "slice" THEN Res(f, NoErr)
        ELSE IF (f.i >= v.cap \/ f.i >= v.len) /\ ~f.settable
             THEN Res(f, Panic("reflect: Set using unaddressable value"))
        ELSE Res([f EXCEPT !.v = IF f.i >= grown.len THEN [grown EXCEPT !.len = f.i + 1] ELSE grown],
                 NoErr)

\* array: one turn of the loop
ArrayStep(callers, f, rd, text) ==
    IF rd.err # NoErr THEN Return(callers, FrameDest(f), rd.err)
    ELSE IF rd.t.k = "ArrayEnd" THEN ReturnNil(callers, f)
    ELSE LET g == Grow(f)
         IN  IF g.err # NoErr THEN Return(callers, FrameDest(g.v), g.err)
             ELSE IF g.v.v.ty.k \notin {"slice", "array"}
                  THEN Return(callers, FrameDest(g.v), Panic("reflect: call of Len on interface Value"))
             ELSE AfterValue(callers, g.v,
                     value(IF HasSlot(g.v) THEN g.v.v.arr[g.v.i + 1] ELSE Invalid, rd.t, text, rd.off))

(***************************************************************************)
(* The XML encoder.                                                        *)
(***************************************************************************)
\* what the encoder wrote, piece by piece: writeString of a literal of the
\* source, the bytes of a value, the %f of a float
Lit(s) == [x |-> "lit", s |-> s, data |-> <<>>]
Txt(data) == [x |-> "text", s |-> "", data |-> data]
Real(f) == [x |-> "%f", s |-> "", data |-> <<>>, f |-> f]

MarshalTypeError(ty) == [e |-> "MarshalTypeError", Type |-> ty]

\* the *fieldInfo marshalValue is called with: nil, or a field's
NoInfo == [has |-> FALSE, LLSDTag |-> Tag(<<>>, FALSE, FALSE, "")]
Info(tag) == [has |-> TRUE, LLSDTag |-> tag]

\* <<w / 10, w % 10>> for an unsigned 64-bit w
WDivMod10(w) ==
    LET t3 == w[4]
        t2 == (t3 % 10) * Limb + w[3]
        t1 == (t2 % 10) * Limb + w[2]
        t0 == (t1 % 10) * Limb + w[1]
    IN  <<<<t0 \div 10, t1 \div 10, t2 \div 10, t3 \div 10>>, t0 % 10>>

RECURSIVE UintDigits(_)
UintDigits(w) ==
    IF w = W0 THEN <<>> ELSE UintDigits(WDivMod10(w)[1]) \o <<48 + WDivMod10(w)[2]>>

\* strconv.FormatUint(w, 10)
FormatUint(w) == IF w = W0 THEN <<48>> ELSE UintDigits(w)

\* strconv.FormatInt(w, 10)
FormatInt(w) == IF WHigh(w) THEN <<chMinus>> \o FormatUint(WNeg(w)) ELSE FormatUint(w)

\* is a field read through reflection: an exported name starts in upper case
Exported(name) == Len(name) > 0 /\ name[1] >= 65 /\ name[1] <= 90

isEmptyValue(v) ==
    CASE v.ty.k \in {"array", "slice"} -> VLen(v) = 0
      [] v.ty.k = "map" -> DOMAIN v.m = {}
      [] v.ty.k = "string" -> Len(v.s) = 0
      [] v.ty.k = "bool" -> ~v.b
      [] v.ty.k \in SignedKinds \cup UnsignedKinds -> v.i = W0
      [] v.ty.k \in FloatKinds -> v.f = F0
      [] v.ty.k = "interface" -> ~IsValid(v.dyn)
      [] v.ty.k = "ptr" -> v.isnil
      [] OTHER -> FALSE

\* the bytes of a []byte or [n]byte value
BytesOf(v) == [j \in 1..VLen(v) |-> v.arr[j].i[1]]

\* XMLEncoder.writeBytes: what it writes, and its error
writeBytes(b, encoding) ==
    CASE encoding = Base16 -> Res(<<Txt(ToUpper(EncodeToString(b)))>>, NoErr)
      [] encoding = Base64 -> Res(<<Txt(Base64Encode(b))>>, NoErr)
      [] encoding = Base85 ->
            Res(<<Txt(EscapeText(A85Encode(Zeros(A85MaxEncodedLen(Len(b))), 0, b)))>>, NoErr)
      [] OTHER -> Res(<<>>, [e |-> "Unknown encoding", encoding |-> encoding])

\* case reflect.Array, reflect.Slice with elements of kind Uint8
marshalBinary(v, info, addr) ==
    LET encoding == IF info.has /\ info.LLSDTag.Encoding # "" THEN info.LLSDTag.Encoding
                    ELSE Base16
        open == IF encoding = Base16 THEN <<Lit("<binary>")>>
                ELSE <<Lit("<binary encoding=\""), Lit(encoding), Lit("\">")>>
        w == writeBytes(BytesOf(v), encoding)
    IN  IF v.ty.k = "array" /\ ~addr
        THEN Res(open, Panic("reflect.Value.Slice: slice of unaddressable array"))
        ELSE IF v.ty.k = "slice" /\ v.ty.name # "slice"
        THEN Res(open, [e |-> "Unable to cast binary slice"])
        ELSE IF w.err # NoErr THEN Res(open, w.err)
        ELSE Res(open \o w.v \o <<Lit("</binary>")>>, NoErr)

\* the default case of the switch on v.Kind(): the type switch on v.Interface()
marshalDefault(v) ==
    CASE v.ty = TUUID ->
            Res(<<Lit("<uuid>"), Txt(EncodeToString(BytesOf(v))), Lit("</uuid>")>>, NoErr)
      [] v.ty = TURL -> Res(<<Lit("<uri>"), Txt(EscapeText(v.s)), Lit("</uri>")>>, NoErr)
      [] v.ty = TTime -> Res(<<Lit("<date>"), [x |-> "RFC3339", t |-> v.t], Lit("</date>")>>, NoErr)
      [] OTHER -> Res(<<>>, MarshalTypeError(v.ty))

\* the cases of the switch on v.Kind() that write one scalar element
marshalScalar(v) ==
    CASE v.ty.k = "string" ->
            IF v.ty = TURL THEN Res(<<Lit("<uri>"), Txt(EscapeText(v.s)), Lit("</uri>")>>, NoErr)
            ELSE Res(<<Lit("<string>"), Txt(EscapeText(v.s)), Lit("</string>")>>, NoErr)
      [] v.ty.k \in {"int", "int8", "int16", "int32"} ->
            Res(<<Lit("<integer>"), Txt(FormatInt(v.i)), Lit("</integer>")>>, NoErr)
      [] v.ty.k \in {"uint", "uint8", "uint16", "uint32"} ->
            Res(<<Lit("<integer>"), Txt(FormatUint(v.i)), Lit("</integer>")>>, NoErr)
      [] v.ty.k \in FloatKinds -> Res(<<Lit("<real>"), Real(v.f), Lit("</real>")>>, NoErr)
      [] v.ty.k = "bool" ->
            Res(<<Lit("<boolean>"), Lit(IF v.b THEN "1" ELSE "0"), Lit("</boolean>")>>, NoErr)
      [] OTHER -> marshalDefault(v)

\* the orders of 1..n
Orders(n) ==
    {p \in [1..n -> 1..n] : \A i, j \in 1..n : p[i] = p[j] => i = j}

\* the order a range over a Go map of n entries takes them in, for the
\* permutation perm of the run: any order is possible
RangeOrder(perm, n) == SelectSeq(perm, LAMBDA j : j <= n)

RECURSIVE SortedKeys(_)
\* the keys of a map value in a fixed order, to be permuted by RangeOrder
SortedKeys(keys) ==
    IF keys = {} THEN <<>>
    ELSE LET key == CHOOSE x \in keys : TRUE IN <<key>> \o SortedKeys(keys \ {key})

\* out and then what r wrote, or r's error
Wrote(out, r) == Res(out \o r.v, r.err)

RECURSIVE marshalValue(_, _, _, _)
RECURSIVE marshalFields(_, _, _, _, _)
RECURSIVE marshalEntries(_, _, _, _)
RECURSIVE marshalElems(_, _, _, _)
RECURSIVE FieldThen(_, _, _, _, _, _)
RECURSIVE EntryThen(_, _, _, _, _)
RECURSIVE ElemThen(_, _, _, _, _)

\* the body of `for key, field := range fields` for the field order[j] on
marshalFields(v, order, j, addr, perm) ==
    IF j > Len(order) THEN Res(<<>>, NoErr)
    ELSE LET tag == FieldTag(v.ty, order[j])
         IN  IF \/ cachedFieldsForType(v.ty)[tag.Name] # order[j]
                \/ tag.Omit
                \/ ~Exported(v.ty.fields[order[j]].Name)
                \/ (tag.OmitEmpty /\ isEmptyValue(v.flds[order[j]]))
             THEN marshalFields(v, order, j + 1, addr, perm)
             ELSE FieldThen(v, order, j, addr, perm,
                     Wrote(<<Lit("<key>"), Txt(tag.Name), Lit("</key>")>>,
                           marshalValue(v.flds[order[j]], Info(tag), addr, perm)))

\* the rest of the loop after the field order[j] wrote r
FieldThen(v, order, j, addr, perm, r) ==
    IF r.err # NoErr THEN r ELSE Wrote(r.v, marshalFields(v, order, j + 1, addr, perm))

\* the body of `for _, key := range v.MapKeys()` for keys[j] on
marshalEntries(v, keys, j, perm) ==
    IF j > Len(keys) THEN Res(<<>>, NoErr)
    ELSE EntryThen(v, keys, j, perm,
            Wrote(<<Lit("<key>"), Txt(EscapeText(keys[j])), Lit("</key>")>>,
                  marshalValue(v.m[keys[j]], NoInfo, FALSE, perm)))

EntryThen(v, keys, j, perm, r) ==
    IF r.err # NoErr THEN r ELSE Wrote(r.v, marshalEntries(v, keys, j + 1, perm))

\* the body of `for i := 0; i < v.Len(); i++` from element j on
marshalElems(v, j, addr, perm) ==
    IF j > VLen(v) THEN Res(<<>>, NoErr)
    ELSE ElemThen(v, j, addr, perm, marshalValue(v.arr[j], NoInfo, addr, perm))

ElemThen(v, j, addr, perm, r) ==
    IF r.err # NoErr THEN r ELSE Wrote(r.v, marshalElems(v, j + 1, addr, perm))

\* out, then what r wrote, then close if r gave no error
Closed(out, r, close) ==
    IF r.err # NoErr THEN Wrote(out, r) ELSE Res(out \o r.v \o close, NoErr)

\* the switch on v.Kind(), v being what a pointer pointed to if there was one
marshalKind(v, info, addr, perm) ==
    CASE v.ty.k = "interface" -> marshalValue(v.dyn, NoInfo, FALSE, perm)
      [] v.ty.k = "struct" ->
            Closed(<<Lit("<map>")>>,
                   marshalFields(v, RangeOrder(perm, Len(v.ty.fields)), 1, addr, perm),
                   <<Lit("</map>")>>)
      [] v.ty.k = "map" ->
            Closed(<<Lit("<map>")>>,
                   marshalEntries(v, [j \in 1..Cardinality(DOMAIN v.m) |->
                        SortedKeys(DOMAIN v.m)[RangeOrder(perm, Cardinality(DOMAIN v.m))[j]]],
                        1, perm),
                   <<Lit("</map>")>>)
      [] v.ty.k \in {"array", "slice"} ->
            IF v.ty.elem.k = "uint8" THEN marshalBinary(v, info, addr)
            ELSE Closed(<<Lit("<array>")>>,
                        marshalElems(v, 1, addr \/ v.ty.k = "slice", perm),
                        <<Lit("</array>")>>)
      [] OTHER -> marshalScalar(v)

\* XMLEncoder.marshalValue(v, info); addr is v.CanAddr().  No type of the
\* calls implements TextMarshaler, so the hook is never taken.
marshalValue(v, info, addr, perm) ==
    IF ~IsValid(v) THEN Res(<<>>, Panic("reflect: call of reflect.Value.CanInterface on zero Value"))
    ELSE IF info.has /\ info.LLSDTag.OmitEmpty /\ isEmptyValue(v) THEN Res(<<>>, NoErr)
    ELSE IF v.ty.k = "ptr"
         THEN (IF v.isnil THEN Res(<<Lit("<undef />")>>, NoErr)
               ELSE marshalKind(v.elem, info, TRUE, perm))
    ELSE marshalKind(v, info, addr, perm)

\* XMLEncoder.Encode(v)
Encode(v, perm) ==
    Closed(<<Lit("xml.Header"), Lit("<llsd>")>>, marshalValue(v, NoInfo, FALSE, perm),
           <<Lit("</llsd>")>>)

(***************************************************************************)
(* The state machine.                                                      *)
(***************************************************************************)
Top == stack[Len(stack)]
Callers == SubSeq(stack, 1, Len(stack) - 1)

\* the reads the token reader can answer with in the current state
Reads ==
    IF cfg.scan = "mock" THEN MockReads(cfg.alphabet, cfg.errors, off, off)
    ELSE IF cfg.scan = "xml" THEN {XMLScannerToken(input, off)}
    ELSE {BinaryScannerToken(input, off)}

\* one read of the token reader and the Unmarshaler's work up to its next read
Apply(rd, n) ==
    /\ tok' = rd.t
    /\ consumed' = IF rd.err = NoErr THEN Append(consumed, rd.t) ELSE consumed
    /\ input' = rd.input
    /\ off' = rd.off
    /\ stack' = n.stack
    /\ result' = n.result
    /\ dst' = n.dst
    /\ scanErr' = rd.err
    /\ UNCHANGED <<dst0, cfg, output, fieldCache, goroutines>>

AtFrame(fn) == result = Running /\ Len(stack) > 0 /\ Top.fn = fn

\* Unmarshal on something that is no pointer
UnmarshalNonPointer ==
    /\ AtFrame("Unmarshal")
    /\ Top.v.ty.k # "ptr"
    /\ result' = [e |-> "Non-pointer passed to Unmarshal"]
    /\ stack' = <<>>
    /\ UNCHANGED <<tok, consumed, input, off, dst, dst0, cfg, scanErr, output, fieldCache, goroutines>>

Unmarshal ==
    /\ AtFrame("Unmarshal")
    /\ Top.v.ty.k = "ptr"
    /\ \E rd \in Reads : Apply(rd, UnmarshalStep(Callers, Top, rd, cfg.text))

ObjectKey ==
    /\ AtFrame("objectKey")
    /\ \E rd \in Reads : Apply(rd, ObjectKeyStep(Callers, Top, rd, cfg.DisallowUnknownFields))

ObjectSkip ==
    /\ AtFrame("objectSkip")
    /\ \E rd \in Reads : Apply(rd, ObjectSkipStep(Callers, Top, rd))

ObjectValue ==
    /\ AtFrame("objectValue")
    /\ \E rd \in Reads : Apply(rd, ObjectValueStep(Callers, Top, rd, cfg.text))

MapKey ==
    /\ AtFrame("mapKey")
    /\ \E rd \in Reads : Apply(rd, MapKeyStep(Callers, Top, rd))

MapValue ==
    /\ AtFrame("mapValue")
    /\ \E rd \in Reads : Apply(rd, MapValueStep(Callers, Top, rd, cfg.text))

Array ==
    /\ AtFrame("array")
    /\ \E rd \in Reads : Apply(rd, ArrayStep(Callers, Top, rd, cfg.text))

\* a call that reads no token returns the value r.v and the error r.err
Returns(r) ==
    /\ output' = r.v
    /\ result' = r.err
    /\ stack' = <<>>
    /\ UNCHANGED <<tok, consumed, input, off, dst, dst0, cfg, scanErr, fieldCache, goroutines>>

\* MarshalXML(v): nil and the error, or the buffer's bytes
Marshaled(r) == IF r.err # NoErr THEN Res(<<>>, r.err) ELSE r

\* MarshalXML: the whole encoding, under any order of Go's ranges over maps
MarshalXML ==
    /\ AtFrame("MarshalXML")
    /\ \E perm \in Orders(MaxFields) : Returns(Marshaled(Encode(Top.v, perm)))

\* XMLEncoder.writeBytes(b, encoding) called on its own; the payload then
\* goes to the text decoder
WriteBytes ==
    /\ AtFrame("writeBytes")
    /\ output' = writeBytes(BytesOf(Top.v), cfg.encoding).v
    /\ result' = IF writeBytes(BytesOf(Top.v), cfg.encoding).err # NoErr
                 THEN writeBytes(BytesOf(Top.v), cfg.encoding).err ELSE Running
    /\ stack' = IF writeBytes(BytesOf(Top.v), cfg.encoding).err # NoErr THEN <<>>
                ELSE <<Frame("binary", Top.v, FALSE)>>
    /\ UNCHANGED <<tok, consumed, input, off, dst, dst0, cfg, scanErr, fieldCache, goroutines>>

\* the value and error of a (value, error) result r, d being the value if r is an error
Decoding(r, d) ==
    /\ dst' = IF r.st = "ok" THEN VBytes(r.v) ELSE d
    /\ result' = IF r.st = "ok" THEN NoErr ELSE r.err
    /\ stack' = <<>>
    /\ UNCHANGED <<tok, consumed, input, off, dst0, cfg, scanErr, output, fieldCache, goroutines>>

\* textDecoder.binary(c, encoding) on the character data of the payload written
TextBinary ==
    /\ AtFrame("binary")
    /\ Decoding(textBinary(Unescape(output[1].data), cfg.encoding), dst)

\* the scanner's token is read: testScan fails on an error and is done after
\* the last of the cfg.count tokens it expects
Scanned(rd) ==
    Apply(rd, IF rd.err # NoErr THEN St(<<>>, rd.err, dst)
              ELSE IF Len(consumed) + 1 >= cfg.count THEN St(<<>>, NoErr, dst)
              ELSE St(stack, Running, dst))

\* testScan: one turn of the loop over the expected tokens
TestScan ==
    /\ AtFrame("testScan")
    /\ \E rd \in Reads : Scanned(rd)

\* marshalValue on an integer on its own: the element is written, and its
\* character data is what a decode of it will be given
MarshalInteger ==
    /\ AtFrame("marshalValue")
    /\ output' = marshalScalar(Top.v).v
    /\ result' = Running
    /\ stack' = <<Frame("scalar", PtrTo(Zero(Top.v.ty)), FALSE)>>
    /\ UNCHANGED <<tok, consumed, input, off, dst, dst0, cfg, scanErr, fieldCache, goroutines>>

\* scalar() returned r
Scalared(r) ==
    /\ dst' = r.v
    /\ result' = r.err
    /\ stack' = <<>>
    /\ UNCHANGED <<tok, consumed, input, off, dst0, cfg, scanErr, output, fieldCache, goroutines>>

\* scalar() with the text decoder on the <integer> element written, into a
\* pointer to a zero value of the type the element was written from
UnmarshalInteger ==
    /\ AtFrame("scalar")
    /\ Scalared(Scalar(Top.v, ScalarT("Integer", output[2].data), TRUE, 0))

\* fieldsForType(t) called on its own
FieldsForType ==
    /\ AtFrame("fieldsForType")
    /\ Returns(Res(fieldInfoMap(Top.v.ty), NoErr))

Next ==
    \/ UnmarshalNonPointer
    \/ FieldsForType
    \/ TestScan
    \/ MarshalInteger
    \/ UnmarshalInteger
    \/ WriteBytes
    \/ TextBinary
    \/ MarshalXML
    \/ Unmarshal
    \/ ObjectKey
    \/ ObjectSkip
    \/ ObjectValue
    \/ MapKey
    \/ MapValue
    \/ Array

(***************************************************************************)
(* The calls the model makes: a destination and a decoder per call.        *)
(***************************************************************************)
\* struct{ A int32 }
RecA == TStruct(<<Field(sA, <<>>, <<>>, TInt32)>>)

\* struct{ A int32 `llsd:"-"` }
RecOmit == TStruct(<<Field(sA, sHyphen, <<>>, TInt32)>>)

\* struct{ A int32 `llsd:"-,"` }
RecHyphen == TStruct(<<Field(sA, <<chMinus, chComma>>, <<>>, TInt32)>>)

\* struct{ A int32; X string }
RecAX == TStruct(<<Field(sA, <<>>, <<>>, TInt32), Field(sX, <<>>, <<>>, TString)>>)

\* text payloads
Txt1 == <<49>>
TxtMinus1 == <<45, 49>>
Txt127 == <<49, 50, 55>>
Txt128 == <<49, 50, 56>>
TxtMinus129 == <<45, 49, 50, 57>>
Txt32768 == <<51, 50, 55, 54, 56>>
TxtMaxInt32 == <<50, 49, 52, 55, 52, 56, 51, 54, 52, 55>>
TxtMaxInt32Plus1 == <<50, 49, 52, 55, 52, 56, 51, 54, 52, 56>>
Txt3e9 == <<51, 48, 48, 48, 48, 48, 48, 48, 48, 48>>
TxtMinInt32Minus1 == <<45, 50, 49, 52, 55, 52, 56, 51, 54, 52, 57>>
TxtV == <<118>>

Int1 == ScalarT("Integer", Txt1)

\* the tokens of the calls that exercise maps and arrays
StructAlphabet ==
    {MapStartT, MapEndT, ArrayStartT, ArrayEndT, KeyT(sA), KeyT(sX), Int1, DocumentStartT}

\* a []int32 that held <<7, 8>> before the call
OldSlice ==
    [ty |-> TSlice(TInt32), len |-> 2, cap |-> 2, arr |-> <<VInt(TInt32, 7), VInt(TInt32, 8)>>]

\* a non-nil empty map[string]int32
MadeMap == [ty |-> TMap(TString, TInt32), isnil |-> FALSE, m |-> <<>>]

StructDests ==
    { PtrTo(Zero(RecA)),
      PtrTo(Zero(RecOmit)),
      PtrTo(Zero(TArray(1, TAny))),
      PtrTo(Zero(TAny)),
      PtrTo(MadeMap),
      PtrTo(Zero(TMap(TString, TInt32))),
      PtrTo(OldSlice) }

MockCfg(text, disallow, alphabet) ==
    [fn |-> "Unmarshal", scan |-> "mock", text |-> text, DisallowUnknownFields |-> disallow,
     alphabet |-> alphabet, errors |-> {}, bytes |-> <<>>]

StructCalls ==
    {[cfg |-> MockCfg(TRUE, d, StructAlphabet), dst |-> v] : d \in BOOLEAN, v \in StructDests}

\* the scalar tokens of the calls that exercise the conversion matrix
IntegerPayloads ==
    {<<>>, Txt1, TxtMinus1, Txt127, Txt128, TxtMinus129, Txt32768, TxtMaxInt32,
     TxtMaxInt32Plus1, Txt3e9, TxtMinInt32Minus1, TxtV}

ScalarAlphabet ==
    {ScalarT("Integer", c) : c \in IntegerPayloads}
    \cup {ScalarT("Real", c) : c \in {<<>>, <<49, 46, 53>>, TxtV}}
    \cup {ScalarT("Boolean", c) : c \in {<<>>, <<49>>, <<48>>, sTrue, sFalse, TxtV}}
    \cup {ScalarT("String", c) : c \in {<<>>, TxtV}}
    \cup {ScalarT("URI", c) : c \in {<<>>, TxtV}}
    \cup {ScalarT("UUIDType", c) : c \in {<<>>, <<48, 49>>}}
    \cup {ScalarT("Date", c) : c \in {<<>>, <<90, 53>>, TxtV}}
    \cup {ScalarT("Binary", c) : c \in {<<>>, <<52, 49>>, <<52, 49, 52, 50, 52, 51, 52, 52>>, TxtV}}
    \cup {ScalarEnc("Binary", <<81, 81, 61, 61>>, Base64), ScalarEnc("Binary", <<53, 108>>, Base85),
          ScalarEnc("Binary", <<52, 49>>, "a")}
    \cup {ScalarT("Undefined", <<>>), IntT, KeyT(sA), DocumentStartT}

ScalarTypes ==
    {TInt8, TInt16, TInt32, TInt64, TInt, TUint32, TUint64, TUint, TFloat32, TFloat64,
     TString, TURL, TBool, TAny, TSlice(TUint8), TArray(2, TUint8), TTime, TUUID,
     TPtr(TString), TCsv, RecA, TSlice(TInt32)}

\* struct { A *string; X int32 }
RecP == TStruct(<<Field(sA, <<>>, <<>>, TPtr(TString)), Field(sX, <<>>, <<>>, TInt32)>>)

\* a RecP whose A pointed to "1" and whose X held 7 before the call
OldRecP == [ty |-> RecP, flds |-> <<PtrTo(VStr(TString, Txt1)), VInt(TInt32, 7)>>]

Undef == ScalarT("Undefined", <<>>)
StrV == ScalarT("String", TxtV)

\* the tokens of the calls that exercise a field of pointer type
PointerAlphabet == {MapStartT, MapEndT, KeyT(sA), KeyT(sX), Undef, StrV, Int1}

PointerCalls ==
    {[cfg |-> MockCfg(TRUE, FALSE, PointerAlphabet), dst |-> PtrTo(v)] :
        v \in {Zero(RecP), OldRecP}}

\* a reader whose token list holds error values among the tokens
UnexpectedEOF == "unexpected EOF"

FailingCalls ==
    {[cfg |-> [MockCfg(TRUE, FALSE, StructAlphabet) EXCEPT !.errors = {UnexpectedEOF}],
      dst |-> v] :
        v \in {PtrTo(Zero(RecA)), PtrTo(Zero(TSlice(TInt32))),
               PtrTo(Zero(TMap(TString, TInt32))), PtrTo(Zero(TAny))}}

ScalarCalls ==
    {[cfg |-> MockCfg(TRUE, FALSE, ScalarAlphabet), dst |-> PtrTo(Zero(ty))] : ty \in ScalarTypes}
    \cup {[cfg |-> MockCfg(TRUE, FALSE, ScalarAlphabet), dst |-> Zero(TInt32)]}

\* the scalar tokens with an empty payload, for a decoder called on its own
EmptyAlphabet ==
    {ScalarT(type, <<>>) : type \in {"Real", "Integer", "Boolean", "UUIDType", "Date", "Binary"}}

EmptyTypes == {TFloat64, TInt32, TBool, TUUID, TTime, TSlice(TUint8), TAny}

EmptyCalls ==
    {[cfg |-> MockCfg(text, FALSE, EmptyAlphabet), dst |-> PtrTo(Zero(ty))] :
        text \in BOOLEAN, ty \in EmptyTypes}

\* binary documents
BinInputs ==
    { <<49>>, <<48>>, <<33>>,
      <<105, 0, 0, 0, 42>>, <<105, 255, 255, 255, 255>>, <<105, 128, 0, 0, 0>>,
      <<105, 127, 255, 255, 255>>, <<105, 255, 255, 255, 253>>, <<105, 0, 0>>,
      <<114, 63, 240, 0, 0, 0, 0, 0, 0>>,
      <<115, 0, 0, 0, 1, 118>>, <<115, 0, 0, 0, 0>>,
      <<100, 0, 0, 0, 5>>,
      <<98, 0, 0, 0, 2, 65, 66>>,
      <<123, 0, 0, 0, 1, 107, 0, 0, 0, 1, 65, 105, 0, 0, 0, 1, 125>>,
      <<91, 0, 0, 0, 2, 49, 48, 93>>,
      BinaryHeader \o <<49>>,
      <<60, 49>>, <<120>>, <<>> }

BinTypes == {TBool, TInt32, TInt64, TInt, TAny, TString, RecA, TArray(1, TAny), TFloat64}

BinCalls ==
    {[cfg |-> [fn |-> "Unmarshal", scan |-> "binary", text |-> FALSE, DisallowUnknownFields |-> FALSE,
               alphabet |-> {}, errors |-> {}, bytes |-> b],
      dst |-> PtrTo(Zero(ty))] : b \in BinInputs, ty \in BinTypes}

\* a call that uses no Unmarshaler
Direct(fn) ==
    [fn |-> fn, scan |-> "none", text |-> TRUE, DisallowUnknownFields |-> FALSE,
     alphabet |-> {}, errors |-> {}, bytes |-> <<>>, encoding |-> ""]

\* the record of type ty whose fields hold flds
Rec(ty, flds) == [ty |-> ty, flds |-> flds]

\* the UUID 01020304-0506-0708-090a-0b0c0d0e0f10
UUID1 == [ty |-> TUUID, arr |-> [j \in 1..16 |-> [ty |-> TUint8, i |-> <<j, 0, 0, 0>>]]]

\* time.Unix(0, 0)
Time0 == [ty |-> TTime, t |-> Epoch]

\* the values MarshalXML is called on
MarshalSources ==
    { UUID1, PtrTo(UUID1), Time0, PtrTo(Time0),
      PtrTo(Rec(RecOmit, <<VInt(TInt32, 1)>>)),
      PtrTo(Rec(RecHyphen, <<VInt(TInt32, 1)>>)),
      PtrTo(Rec(RecAX, <<VInt(TInt32, 1), VStr(TString, TxtV)>>)),
      PtrTo(Rec(RecA, <<VInt(TInt32, -1)>>)) }

\* tag strings: "", "-", "-,", "n", names and options in every position
sN == <<110>>
sBogus == <<98, 111, 103, 117, 115>>
TagStrings ==
    { <<>>, sHyphen, sHyphen \o <<chComma>>, sN,
      sN \o <<chComma>> \o sOmitEmpty,
      <<chComma>> \o sOmitEmpty,
      <<chComma>> \o sBase16, <<chComma>> \o sBase64, <<chComma>> \o sBase85,
      <<chComma>> \o sOmitEmpty \o <<chComma>> \o sBase64,
      sN \o <<chComma>> \o sBase85 \o <<chComma>> \o sOmitEmpty,
      sHyphen \o <<chComma>> \o sOmitEmpty,
      <<chComma>> \o sBogus }

\* struct{ A int32 } with every llsd and json tag of TagStrings on A
TaggedTypes == {TStruct(<<Field(sA, l, j, TInt32)>>) : l, j \in TagStrings}

FieldsCalls == {[cfg |-> Direct("fieldsForType"), dst |-> Zero(ty)] : ty \in TaggedTypes}

\* "Binary data"
sBinaryData == <<66, 105, 110, 97, 114, 121, 32, 100, 97, 116, 97>>

\* the byte strings writeBytes is called on
ByteStrings ==
    { <<>>, <<1>>, <<1, 2>>, <<1, 2, 3>>, <<1, 2, 3, 4>>, <<0, 0, 0, 0>>, <<0, 0, 0, 0, 1>>,
      <<255, 254, 253, 252, 251, 250>>, <<0>>, sBinaryData }

WriteCalls ==
    {[cfg |-> [Direct("writeBytes") EXCEPT !.encoding = e], dst |-> VBytes(b)] :
        e \in {Base16, Base64, Base85}, b \in ByteStrings}

MarshalCalls == {[cfg |-> Direct("MarshalXML"), dst |-> v] : v \in MarshalSources}

\* the same LLSD document in its two forms, and the number of its tokens
Be32(n) == <<0, 0, 0, n>>
Blank == CharData(<<10, 32>>)
Element(name, text) == <<StartElement(name, NoAttr), CharData(text), EndElement(name)>>
XMLDocument(body) ==
    <<ProcInst, Blank, StartElement("llsd", NoAttr)>> \o body \o <<EndElement("llsd")>>

\* <integer>1</integer>
DocInteger ==
    [xml |-> XMLDocument(Element("integer", Txt1)),
     bytes |-> BinaryHeader \o <<105>> \o Be32(1),
     count |-> 1]

\* <map><key>A</key><string>v</string></map>
DocMap ==
    [xml |-> XMLDocument(<<StartElement("map", NoAttr)>> \o Element("key", sA)
                          \o Element("string", TxtV) \o <<Blank, EndElement("map")>>),
     bytes |-> BinaryHeader \o <<123>> \o Be32(1) \o <<107>> \o Be32(1) \o sA
               \o <<115>> \o Be32(1) \o TxtV \o <<125>>,
     count |-> 4]

\* <array><boolean>1</boolean><!-- --><array></array></array>
DocArray ==
    [xml |-> XMLDocument(<<StartElement("array", NoAttr)>> \o Element("boolean", Txt1)
                          \o <<Comment, StartElement("array", NoAttr), EndElement("array"),
                                EndElement("array")>>),
     bytes |-> BinaryHeader \o <<91>> \o Be32(2) \o <<49, 91>> \o Be32(0) \o <<93, 93>>,
     count |-> 5]

\* <array><real/><undef></undef></array>: xml.Decoder gives a start and an
\* end element for <real/> as it does for <undef></undef>
DocEmpty ==
    [xml |-> XMLDocument(<<StartElement("array", NoAttr), StartElement("real", NoAttr),
                           EndElement("real"), StartElement("undef", NoAttr),
                           EndElement("undef"), EndElement("array")>>),
     bytes |-> BinaryHeader \o <<91>> \o Be32(2) \o <<114, 0, 0, 0, 0, 0, 0, 0, 0, 33, 93>>,
     count |-> 4]

Documents == {DocInteger, DocMap, DocArray, DocEmpty}

\* the UUID 01010101-0101-0101-0101-010101010101: its 16 bytes, its text,
\* and the value a UUID destination holds once they are stored
UUIDBytes == [j \in 1..16 |-> 1]
UUIDText == [j \in 1..32 |-> IF j % 2 = 1 THEN 48 ELSE 49]
UUIDOnes == [ty |-> TUUID, arr |-> [j \in 1..16 |-> [ty |-> TUint8, i |-> <<1, 0, 0, 0>>]]]

\* a <uuid> element and a 'u' op code decoded into a UUID
UUIDCalls ==
    {[cfg |-> MockCfg(TRUE, FALSE, {ScalarT("UUIDType", UUIDText)}), dst |-> PtrTo(Zero(TUUID))],
     [cfg |-> [fn |-> "Unmarshal", scan |-> "binary", text |-> FALSE,
               DisallowUnknownFields |-> FALSE, alphabet |-> {}, errors |-> {},
               bytes |-> <<117>> \o UUIDBytes],
      dst |-> PtrTo(Zero(TUUID))]}

\* integers of every kind the encoder writes as <integer>
IntegerSources ==
    {VInt(TInt32, n) : n \in {0, 1, -1, 2147483647, -2147483647 - 1}}
    \cup {VInt(TInt8, -128), VInt(TInt16, 32767), VInt(TInt, 42)}
    \cup {[ty |-> TInt, i |-> <<0, 32768, 0, 0>>], [ty |-> TInt, i |-> <<0, 0, 1, 0>>]}
    \cup {VInt(TUint8, 255), VInt(TUint32, 7), VInt(TUint, 7)}
    \cup {[ty |-> TUint32, i |-> <<24064, 45776, 0, 0>>]}

IntegerCalls == {[cfg |-> Direct("marshalValue"), dst |-> v] : v \in IntegerSources}

ScanCalls ==
    {[cfg |-> [fn |-> "testScan", scan |-> sc, text |-> sc = "xml",
               DisallowUnknownFields |-> FALSE, alphabet |-> {}, errors |-> {},
               bytes |-> d.bytes, xml |-> d.xml, count |-> d.count],
      dst |-> Invalid] : sc \in {"xml", "binary"}, d \in Documents}

Calls ==
    StructCalls \cup ScalarCalls \cup EmptyCalls \cup BinCalls \cup PointerCalls
    \cup MarshalCalls \cup FieldsCalls \cup WriteCalls \cup FailingCalls
    \cup ScanCalls \cup UUIDCalls \cup IntegerCalls

\* a call of fn; the calls that are no Unmarshal keep their argument in dst0
Init ==
    \E c \in Calls :
        /\ cfg = c.cfg
        /\ dst0 = c.dst
        /\ dst = c.dst
        /\ stack = <<Frame(c.cfg.fn, c.dst, FALSE)>>
        /\ tok = NilT
        /\ consumed = <<>>
        /\ result = Running
        /\ input = IF c.cfg.scan = "xml" THEN c.cfg.xml ELSE c.cfg.bytes
        /\ off = 0
        /\ scanErr = NoErr
        /\ output = <<>>
        /\ fieldCache = <<>>
        /\ goroutines = <<>>

Spec == Init /\ [][Next]_vars

(***************************************************************************)
(* The field cache under concurrent callers.  Goroutines call              *)
(* cachedFieldsForType on record types; each of the function's two         *)
(* operations on the sync.Map is atomic, and a goroutine may be preempted  *)
(* between them.  A table is a Go map, so two tables with equal content    *)
(* are still two tables: a table carries the goroutine and the call that   *)
(* built it.                                                               *)
(***************************************************************************)
NumGoroutines == 3
MaxCalls == 4

Goroutines == 1..NumGoroutines
CacheTypes == {RecA, RecAX}

\* the map fieldsForType(t) allocates in call n of goroutine g
NewTable(g, n, t) == [by |-> g, call |-> n, fields |-> fieldInfoMap(t)]

Load(cache, t) ==
    IF t \in DOMAIN cache THEN [value |-> cache[t], ok |-> TRUE]
    ELSE [value |-> <<>>, ok |-> FALSE]

\* a Store in LoadOrStore's place: the entry is overwritten
Store(cache, t, tb) ==
    [actual |-> tb, loaded |-> FALSE,
     cache |-> [k \in DOMAIN cache \cup {t} |-> IF k = t THEN tb ELSE cache[k]]]

LoadOrStore(cache, t, tb) ==
    IF t \in DOMAIN cache
    THEN [actual |-> cache[t], loaded |-> TRUE, cache |-> cache]
    ELSE [actual |-> tb, loaded |-> FALSE,
          cache |-> [k \in DOMAIN cache \cup {t} |-> IF k = t THEN tb ELSE cache[k]]]

\* the goroutine g returns table tb for type t from its current call; t and
\* mine stay as the call left them until g's next call
Got(g, t, tb) ==
    [goroutines EXCEPT ![g].pc = "idle", ![g].t = t,
                       ![g].got = @ \cup {[t |-> t, table |-> tb]}]

Unmarshalling ==
    UNCHANGED <<stack, tok, consumed, result, dst, dst0, cfg, input, off, scanErr,
                output>>

RECURSIVE CallsMade(_)
\* the calls of cachedFieldsForType the goroutines 1..n have made
CallsMade(n) == IF n = 0 THEN 0 ELSE goroutines[n].calls + CallsMade(n - 1)

\* cachedFieldsForType, up to the return of fieldCache.Load
CacheLoad(g) ==
    /\ goroutines[g].pc = "idle"
    /\ CallsMade(NumGoroutines) < MaxCalls
    /\ \E t \in CacheTypes :
        IF Load(fieldCache, t).ok
        THEN goroutines' = [Got(g, t, Load(fieldCache, t).value)
                               EXCEPT ![g].calls = @ + 1, ![g].mine = <<>>]
        ELSE goroutines' = [goroutines EXCEPT ![g].pc = "missed", ![g].t = t,
                                              ![g].calls = @ + 1, ![g].mine = <<>>]
    /\ UNCHANGED fieldCache
    /\ Unmarshalling

\* the argument of LoadOrStore: fieldsForType(t) builds a table of its own
CacheCompute(g) ==
    /\ goroutines[g].pc = "missed"
    /\ goroutines' =
           [goroutines EXCEPT ![g].pc = "computed",
                              ![g].mine = NewTable(g, goroutines[g].calls, goroutines[g].t)]
    /\ UNCHANGED fieldCache
    /\ Unmarshalling

Published(g, r) ==
    /\ fieldCache' = r.cache
    /\ goroutines' = Got(g, goroutines[g].t, r.actual)
    /\ Unmarshalling

\* fieldCache.LoadOrStore and the return of what it gave
CacheLoadOrStore(g) ==
    /\ goroutines[g].pc = "computed"
    /\ Published(g, LoadOrStore(fieldCache, goroutines[g].t, goroutines[g].mine))

InitCache ==
    /\ fieldCache = <<>>
    /\ goroutines = [g \in Goroutines |-> [pc |-> "idle", t |-> <<>>, mine |-> <<>>,
                                            got |-> {}, calls |-> 0]]
    /\ stack = <<>>
    /\ tok = NilT
    /\ consumed = <<>>
    /\ result = NoErr
    /\ dst = <<>>
    /\ dst0 = <<>>
    /\ cfg = <<>>
    /\ input = <<>>
    /\ off = 0
    /\ scanErr = NoErr
    /\ output = <<>>

NextCache ==
    \E g \in Goroutines : CacheLoad(g) \/ CacheCompute(g) \/ CacheLoadOrStore(g)

SpecCache == InitCache /\ [][NextCache]_vars

(***************************************************************************)
(* The grammar of a wire value, as the specification gives it, over the    *)
(* tokens read so far:                                                     *)
(*   value := Scalar | MapStart (Key value)* MapEnd                        *)
(*                   | ArrayStart value* ArrayEnd                          *)
(***************************************************************************)
\* what the grammar expects once a value is complete inside the open containers stk
AfterOne(stk) ==
    IF Len(stk) = 0 THEN "done"
    ELSE IF stk[Len(stk)] = "map" THEN "key" ELSE "elem"

Pop(stk) == SubSeq(stk, 1, Len(stk) - 1)

RECURSIVE Scan(_, _, _, _)
\* reads s[j..] with the containers stk open and `want` expected next
\* ("value" at the root or after a Key, "key" in a map, "elem" in an array,
\* "done" after the root value); ok is FALSE when s breaks the grammar
Scan(s, j, stk, want) ==
    IF j > Len(s) THEN [ok |-> TRUE, stk |-> stk, want |-> want]
    ELSE LET k == s[j].k
             isValue == want \in {"value", "elem"}
         IN  CASE k = "Scalar" /\ isValue -> Scan(s, j + 1, stk, AfterOne(stk))
               [] k = "MapStart" /\ isValue -> Scan(s, j + 1, Append(stk, "map"), "key")
               [] k = "ArrayStart" /\ isValue -> Scan(s, j + 1, Append(stk, "array"), "elem")
               [] k = "Key" /\ want = "key" -> Scan(s, j + 1, stk, "value")
               [] k = "MapEnd" /\ want = "key" -> Scan(s, j + 1, Pop(stk), AfterOne(Pop(stk)))
               [] k = "ArrayEnd" /\ want = "elem" -> Scan(s, j + 1, Pop(stk), AfterOne(Pop(stk)))
               [] OTHER -> [ok |-> FALSE, stk |-> stk, want |-> want]

Shape(s) == Scan(s, 1, <<>>, "value")

\* s is exactly one complete value
Complete(s) == Shape(s).ok /\ Shape(s).want = "done"

\* s is the beginning of one value
Wellformed(s) == Shape(s).ok

\* the tokens read so far but the last
Before == SubSeq(consumed, 1, Len(consumed) - 1)

Finished == result # Running
FromMock == cfg.scan = "mock"
Into(ty) == dst0.ty = TPtr(ty)
Seen(t) == \E j \in 1..Len(consumed) : consumed[j] = t
Harmless == {Running, NoErr, EOF}

(***************************************************************************)
(* Maps and arrays.                                                        *)
(***************************************************************************)
\* C1: with DisallowUnknownFields off, a record whose wire map holds a key of
\* no field skips exactly one complete value for it (all tokens of a nested
\* map or array included) and goes on with the next key of the same map: the
\* record's loop reads a key only between complete members, well-formed input
\* gives no error, and Unmarshal returns nil only at the record's own MapEnd
C1_UnknownKeySkipsOneValue ==
    (FromMock /\ Into(RecA) /\ ~cfg.DisallowUnknownFields /\ Seen(KeyT(sX))) =>
        /\ (AtFrame("objectKey") /\ Len(stack) = 2) =>
                Shape(consumed) = [ok |-> TRUE, stk |-> <<"map">>, want |-> "key"]
        /\ (Wellformed(consumed) /\ ~Seen(KeyT(sA))) => result \in Harmless
        /\ result = NoErr => Complete(consumed)

\* C2: a wire array longer than the fixed-size array it is decoded into
\* succeeds: every excess element, scalar or nested, is consumed whole and
\* without error, and decoding ends at the array's own ArrayEnd
C2_FixedArrayDrainsExcess ==
    (FromMock /\ Into(TArray(1, TAny)) /\ Len(consumed) >= 2
        /\ consumed[1] = ArrayStartT /\ consumed[2] = Int1) =>
        /\ Wellformed(consumed) => result \in Harmless
        /\ result = NoErr => Complete(consumed)
        /\ Complete(consumed) => (result = NoErr /\ dst.elem.arr[1] = VAny(VInt(TInt32, 1)))

\* the tokens read so far are ArrayStart, then Integer scalars only
FlatArrayOpen ==
    /\ Len(consumed) >= 1
    /\ consumed[1] = ArrayStartT
    /\ \A j \in 2..Len(consumed) : consumed[j] = Int1

\* the []any holding n times the int32 1
AnyOnes(n) ==
    [ty |-> TSlice(TAny), len |-> n, arr |-> [j \in 1..n |-> VAny(VInt(TInt32, 1))]]

\* C3: a wire array decoded into an `any` succeeds and leaves a []any of the
\* decoded elements in wire order, reading up to the array's own ArrayEnd
\* and no further
C3_ArrayIntoAny ==
    (FromMock /\ Into(TAny)) =>
        /\ FlatArrayOpen => result \in {Running, EOF}
        /\ (Len(consumed) >= 2 /\ consumed[Len(consumed)] = ArrayEndT
                /\ \A j \in 2..(Len(consumed) - 1) : consumed[j] = Int1
                /\ consumed[1] = ArrayStartT) =>
              /\ result = NoErr
              /\ dst.elem.dyn.ty = TSlice(TAny)
              /\ [ty |-> dst.elem.dyn.ty, len |-> dst.elem.dyn.len,
                  arr |-> SubSeq(dst.elem.dyn.arr, 1, dst.elem.dyn.len)]
                     = AnyOnes(Len(consumed) - 2)

\* C4: the first token Unmarshal reads must be DocumentStart, any other one
\* gives "Invalid LLSD: missing document start."; DocumentStart followed by a
\* Key as the root value gives "Invalid LLSD: unexpected Key"
C4_DocumentStartRequired ==
    (FromMock /\ Len(consumed) >= 1) =>
        /\ consumed[1] # DocumentStartT =>
              (result.e = "InvalidLLSDError" /\ result.what = "missing document start.")
        /\ (consumed[1] = DocumentStartT /\ Len(consumed) = 1) => result = Running
        /\ (Len(consumed) = 2 /\ consumed[1] = DocumentStartT /\ consumed[2].k = "Key") =>
              (result.e = "InvalidLLSDError" /\ result.what = "unexpected"
                  /\ result.name = "Key")

\* the last token read breaks the alternation of keys and values in the
\* root map: a Key or MapEnd where a value is due, or a value where a Key
\* or MapEnd is due
BreaksAlternation ==
    /\ Len(consumed) >= 2
    /\ Shape(Before).ok
    /\ Shape(Before).stk = <<"map">>
    /\ \/ Shape(Before).want = "value" /\ consumed[Len(consumed)].k \in {"Key", "MapEnd"}
       \/ Shape(Before).want = "key"
            /\ consumed[Len(consumed)].k \in {"Scalar", "MapStart", "ArrayStart"}

\* C5: in a wire map decoded into a record (known or unknown key) or into a
\* string-keyed map, a Key followed at once by a Key or a MapEnd, or a value
\* followed at once by a value, makes Unmarshal return an InvalidLLSDError
C5_KeyValueAlternation ==
    (FromMock /\ (Into(RecA) \/ Into(MadeMap.ty)) /\ ~cfg.DisallowUnknownFields
        /\ BreaksAlternation) => result.e = "InvalidLLSDError"

(***************************************************************************)
(* Scalars.                                                                *)
(***************************************************************************)
\* Unmarshal was called on a pointer to a ty, read the single token t and returned
Decoded(ty, t) == Into(ty) /\ consumed = <<t>> /\ Finished

\* the conversion matrix of the specification: the destination types a
\* wire type is accepted into
InMatrix(type, ty) ==
    CASE type = "Real" -> ty.k \in FloatKinds \cup {"interface"}
      [] type = "Integer" -> ty.k \in SignedKinds \cup {"interface"}
      [] type = "URI" -> ty = TURL \/ ty.k = "interface"
      [] type = "String" -> ty.k \in {"string", "interface"}
      [] type = "Boolean" -> ty.k \in {"bool", "string", "interface"}
      [] type = "Binary" ->
            \/ ty.k \in {"slice", "array"} /\ ty.elem = TUint8
            \/ ty.k \in {"interface", "string", "bool", "uint32", "int32", "uint", "int",
                         "float32", "int64", "uint64", "float64"}
      [] type = "Date" ->
            ty = TTime \/ ty.k \in SignedKinds \cup FloatKinds \cup {"string", "interface"}
      [] type = "Undefined" -> TRUE

\* the wire types the matrix has a row for
MatrixTypes == {"Real", "Integer", "URI", "String", "Boolean", "Binary", "Date", "Undefined"}

\* the destinations the matrix is about: no pointer to follow, no hook
PlainTypes == ScalarTypes \ {TPtr(TString), TCsv}

\* C6: a scalar token whose (wire type, destination kind) pairing lies outside
\* the conversion matrix makes Unmarshal return an UnmarshalTypeError with
\* the destination type and the tokenizer offset; it never crashes and never
\* assigns the destination
C6_OutsideMatrixIsTypeError ==
    \A ty \in PlainTypes : \A t \in ScalarAlphabet :
        (FromMock /\ cfg.text /\ Decoded(ty, t) /\ t.k = "Scalar" /\ t.type \in MatrixTypes
            /\ ~InMatrix(t.type, ty)) =>
            /\ result.e = "UnmarshalTypeError"
            /\ result.Type = ty
            /\ result.Offset = off
            /\ dst = dst0

\* the destination type that holds a wire type as it is
NaturalType(type) ==
    CASE type = "Real" -> TFloat64
      [] type = "Integer" -> TInt32
      [] type = "Boolean" -> TBool
      [] type = "UUIDType" -> TUUID
      [] type = "Date" -> TTime
      [] type = "Binary" -> TSlice(TUint8)

\* the zero of a wire type in its natural destination: real 0.0, integer 0,
\* boolean false, UUID all zeros, date the Unix epoch, binary empty
ZeroOf(type) ==
    IF type = "Date" THEN [ty |-> TTime, t |-> Epoch] ELSE Zero(NaturalType(type))

\* C7: for each scalar type, the text decoder and the binary decoder both
\* take an empty payload to the type's zero value, without error
C7_EmptyPayloadIsZero ==
    \A t \in EmptyAlphabet :
        (FromMock /\ cfg.alphabet = EmptyAlphabet /\ Decoded(NaturalType(t.type), t)) =>
            (result = NoErr /\ dst = PtrTo(ZeroOf(t.type)))

\* C8: binary op '1' decoded into a bool gives true, op '0' gives false, and
\* neither reads a payload byte after the op code
C8_BinaryBooleanOps ==
    (cfg.scan = "binary" /\ cfg.bytes \in {<<49>>, <<48>>} /\ Into(TBool) /\ Finished) =>
        /\ result = NoErr
        /\ dst.elem.b = (cfg.bytes = <<49>>)
        /\ off = 1

\* the int64 of the big-endian two's-complement 32-bit integer in b[1..4]
SignedBigEndian32(b) ==
    <<b[3] * 256 + b[4], b[1] * 256 + b[2],
      IF b[1] >= 128 THEN Limb - 1 ELSE 0, IF b[1] >= 128 THEN Limb - 1 ELSE 0>>

\* C9: binary op 'i' with a 4-byte payload, decoded into a signed integer of
\* 32 bits or more, stores the payload read as a big-endian two's-complement
\* value (00 00 00 2A is 42, FF FF FF FF is -1)
C9_BinaryIntegerIsSigned32 ==
    (cfg.scan = "binary" /\ Len(cfg.bytes) = 5 /\ cfg.bytes[1] = 105
        /\ (Into(TInt32) \/ Into(TInt64) \/ Into(TInt)) /\ Finished) =>
        /\ result = NoErr
        /\ dst.elem.i = SignedBigEndian32(Tail(cfg.bytes))

\* the least signed width, in bits, that holds the decimal number a payload spells
BitsNeeded(c) ==
    CASE c \in {Txt1, TxtMinus1, Txt127} -> 8
      [] c \in {Txt128, TxtMinus129} -> 16
      [] c \in {Txt32768, TxtMaxInt32} -> 32
      [] c \in {TxtMaxInt32Plus1, Txt3e9, TxtMinInt32Minus1} -> 64

\* the width of a destination the matrix accepts an Integer into
Width(ty) == IF ty.k = "interface" THEN 32 ELSE BitSize(ty.k)

\* C10: an Integer wire value out of the range of its destination, a signed
\* integer of any width or an `any` (which holds an int32), gives an
\* UnmarshalTypeError and is never stored truncated or wrapped
C10_IntegerOverflowIsTypeError ==
    \A ty \in {TInt8, TInt16, TInt32, TInt64, TInt, TAny} :
        \A c \in IntegerPayloads \ {<<>>, TxtV} :
            (FromMock /\ cfg.text /\ Decoded(ty, ScalarT("Integer", c))
                /\ BitsNeeded(c) > Width(ty)) =>
                (result.e = "UnmarshalTypeError" /\ dst = dst0)

(***************************************************************************)
(* Pointers, unknown fields, tags.                                         *)
(***************************************************************************)

\* Unmarshal was called on a pointer to a RecP and read the one member
\* key: t, whole
OneMember(key, t) ==
    FromMock /\ Into(RecP) /\ consumed = <<MapStartT, KeyT(key), t, MapEndT>>

\* C11: into a pointer destination without a hook, an Undefined scalar leaves
\* the pointer exactly as it was (a nil pointer stays nil, nothing is
\* allocated), any other scalar allocates the pointee of a nil pointer and
\* stores the converted value in what the pointer points to; into a
\* destination that is no pointer an Undefined scalar changes nothing
C11_UndefLeavesPointer ==
    /\ OneMember(sA, Undef) => (result = NoErr /\ dst = dst0)
    /\ OneMember(sA, StrV) =>
          /\ result = NoErr
          /\ dst.elem.flds = [dst0.elem.flds EXCEPT ![1] = PtrTo(VStr(TString, TxtV))]
    /\ OneMember(sX, Undef) => (result = NoErr /\ dst = dst0)
    /\ \A ty \in PlainTypes \cup {TPtr(TString)} :
          (FromMock /\ Decoded(ty, Undef)) => (result = NoErr /\ dst = dst0)

\* the nil field A was allocated and given the string of the wire
C11_Witness ==
    /\ OneMember(sA, StrV)
    /\ dst0.elem.flds[1].isnil
    /\ dst.elem.flds[1] = PtrTo(VStr(TString, TxtV))

\* the last token read is a key of no field of the record being decoded, met
\* where the root map expects a key, and the first such key
FirstUnknownKey ==
    /\ FromMock /\ Into(RecA)
    /\ Len(consumed) >= 2
    /\ consumed[Len(consumed)] = KeyT(sX)
    /\ Shape(Before) = [ok |-> TRUE, stk |-> <<"map">>, want |-> "key"]
    /\ \A j \in 1..(Len(consumed) - 1) : consumed[j] # KeyT(sX)

\* C12: with DisallowUnknownFields set, a wire map decoded into a record
\* fails with `LLSD: Unknown field "<name>"` at the first key of no field,
\* before the value of that key is read, and fails this way nowhere else;
\* with the flag off no input gives this error
C12_DisallowUnknownFields ==
    /\ (FirstUnknownKey /\ cfg.DisallowUnknownFields) => result = UnknownFieldError(sX)
    /\ (FromMock /\ result.e = "UnknownField") =>
          (cfg.DisallowUnknownFields /\ consumed[Len(consumed)] = KeyT(result.key)
              /\ result.key \notin DOMAIN fieldsForType(dst0.ty.elem))
    /\ (FirstUnknownKey /\ ~cfg.DisallowUnknownFields) =>
          (result = Running \/ (scanErr # NoErr /\ result = scanErr))

\* the record { A int32 } met the key "X" after a whole member, flag set
C12_Witness ==
    /\ FirstUnknownKey /\ cfg.DisallowUnknownFields
    /\ Before = <<MapStartT, KeyT(sA), Int1>>
    /\ result = UnknownFieldError(sX)

\* MarshalXML was called on a pointer to a ty and returned
Marshalled(ty) == cfg.fn = "MarshalXML" /\ Into(ty) /\ Finished

\* the document MarshalXML writes around the pieces body
Document(body) == <<Lit("xml.Header"), Lit("<llsd>")>> \o body \o <<Lit("</llsd>")>>

\* C13: a record field whose tag is exactly "-" is omitted entirely:
\* MarshalXML writes no key for it, and Unmarshal never assigns it, whatever
\* keys the wire map holds (the field's source name included)
C13_HyphenTagOmitsField ==
    /\ Marshalled(RecOmit) =>
          (result = NoErr /\ output = Document(<<Lit("<map>"), Lit("</map>")>>))
    /\ (FromMock /\ Into(RecOmit)) => dst = dst0

\* the descriptor the tag grammar of the specification gives the tag t on a
\* field called A: name, omit, omit_empty, encoding (base16 the default)
Described(t) ==
    CASE t = <<>> -> Tag(sA, FALSE, FALSE, Base16)
      [] t = sHyphen -> Tag(sA, TRUE, FALSE, Base16)
      [] t = sHyphen \o <<chComma>> -> Tag(sHyphen, FALSE, FALSE, Base16)
      [] t = sN -> Tag(sN, FALSE, FALSE, Base16)
      [] t = sN \o <<chComma>> \o sOmitEmpty -> Tag(sN, FALSE, TRUE, Base16)
      [] t = <<chComma>> \o sOmitEmpty -> Tag(sA, FALSE, TRUE, Base16)
      [] t = <<chComma>> \o sBase16 -> Tag(sA, FALSE, FALSE, Base16)
      [] t = <<chComma>> \o sBase64 -> Tag(sA, FALSE, FALSE, Base64)
      [] t = <<chComma>> \o sBase85 -> Tag(sA, FALSE, FALSE, Base85)
      [] t = <<chComma>> \o sOmitEmpty \o <<chComma>> \o sBase64 -> Tag(sA, FALSE, TRUE, Base64)
      [] t = sN \o <<chComma>> \o sBase85 \o <<chComma>> \o sOmitEmpty ->
            Tag(sN, FALSE, TRUE, Base85)
      [] t = sHyphen \o <<chComma>> \o sOmitEmpty -> Tag(sHyphen, FALSE, TRUE, Base16)
      [] t = <<chComma>> \o sBogus -> Tag(sA, FALSE, FALSE, Base16)

\* fieldsForType returned the table of a record whose one field has the
\* llsd tag l and the json tag j
Tabled(l, j) ==
    cfg.fn = "fieldsForType" /\ Finished /\ dst0.ty = TStruct(<<Field(sA, l, j, TInt32)>>)

\* the descriptor d with the encoding the encoder and the decoder read it as
Effective(d) == [d EXCEPT !.Encoding = IF @ = "" THEN Base16 ELSE @]

\* C14: parseTag returns the descriptor of the tag grammar for every tag
\* string: the empty tag keeps the field under its source name, "-" alone
\* omits it, "-," names it "-", an empty name part keeps the source name and
\* applies the options, and a field without llsd tag gets its json tag
\* parsed the same way; the table holds the field under the descriptor's name
C14_ParseTagGrammar ==
    \A l, j \in TagStrings :
        Tabled(l, j) =>
            /\ result = NoErr
            /\ DOMAIN output = {Described(IF l = <<>> THEN j ELSE l).Name}
            /\ \A key \in DOMAIN output :
                  /\ output[key].Index = 1
                  /\ Effective(output[key].LLSDTag) = Described(IF l = <<>> THEN j ELSE l)

\* the tag "-," gave a field that is kept under the name "-"
C14_Witness ==
    /\ Tabled(sHyphen \o <<chComma>>, <<>>)
    /\ DOMAIN output = {sHyphen}
    /\ ~output[sHyphen].LLSDTag.Omit

(***************************************************************************)
(* The XML encoder.                                                        *)
(***************************************************************************)
\* MarshalXML was called on v, or on a pointer to v, and returned
MarshalledValue(v) == cfg.fn = "MarshalXML" /\ dst0 \in {v, PtrTo(v)} /\ Finished

\* C15: the XML encoder writes a UUID value as <uuid>32 hex digits</uuid>
\* and a time value as <date>RFC 3339 text</date>, never as <binary> or <map>
C15_TaggedTypesAsScalars ==
    /\ MarshalledValue(UUID1) =>
          /\ result = NoErr
          /\ output = Document(<<Lit("<uuid>"), Txt(EncodeToString(BytesOf(UUID1))),
                                 Lit("</uuid>")>>)
    /\ MarshalledValue(Time0) =>
          /\ result = NoErr
          /\ output = Document(<<Lit("<date>"), [x |-> "RFC3339", t |-> Epoch],
                                 Lit("</date>")>>)

\* <key>name</key>
KeyElement(name) == <<Lit("<key>"), Txt(name), Lit("</key>")>>

\* C16: MarshalXML writes the kept fields of a record in the order of the
\* fields in the record type, so every encoding of struct{ A int32; X string }
\* {1, "v"} is the same bytes, A before X
C16_FieldsInDescriptorOrder ==
    Marshalled(RecAX) =>
        /\ result = NoErr
        /\ output = Document(<<Lit("<map>")>>
                        \o KeyElement(sA)
                        \o <<Lit("<integer>"), Txt(Txt1), Lit("</integer>")>>
                        \o KeyElement(sX)
                        \o <<Lit("<string>"), Txt(TxtV), Lit("</string>")>>
                        \o <<Lit("</map>")>>)

\* writeBytes wrote a byte string under the encoding e and the text decoder
\* decoded the payload under e
RoundTrip(e) == cfg.fn = "writeBytes" /\ cfg.encoding = e /\ Finished

\* C17: for every byte string b and every encoding of base16, base64 and
\* base85, the text decoder gives back exactly b (same bytes, same length,
\* no padding) from the payload the XML encoder writes for b
C17_BinaryRoundTrip ==
    \A e \in {Base16, Base64, Base85} : RoundTrip(e) => (result = NoErr /\ dst = dst0)

(***************************************************************************)
(* C18: the field cache is publish-once.  Under every interleaving of the  *)
(* goroutines, every table a call of cachedFieldsForType has returned for  *)
(* a record type is the one table published for that type, with the        *)
(* content fieldsForType computes, and a published entry is never          *)
(* replaced, changed or removed.                                           *)
(***************************************************************************)
ReceivedPublished ==
    \A g \in DOMAIN goroutines : \A e \in goroutines[g].got :
        /\ e.t \in DOMAIN fieldCache
        /\ e.table = fieldCache[e.t]
        /\ e.table.fields = fieldInfoMap(e.t)

EntriesKept ==
    \A t \in DOMAIN fieldCache : t \in DOMAIN fieldCache' /\ fieldCache'[t] = fieldCache[t]

C18_PublishOnce == []ReceivedPublished /\ [][EntriesKept]_vars

\* two goroutines raced on a type: each built a table of its own, one was
\* published and both calls returned it; a later call returned it too
C18_Witness ==
    \E g, h, k \in DOMAIN goroutines : \E t \in DOMAIN fieldCache :
        /\ g # h /\ k # g /\ k # h
        /\ goroutines[g].pc = "idle" /\ goroutines[h].pc = "idle"
        /\ goroutines[g].t = t /\ goroutines[h].t = t
        /\ goroutines[g].mine = fieldCache[t]
        /\ goroutines[h].mine = NewTable(h, goroutines[h].calls, t)
        /\ [t |-> t, table |-> fieldCache[t]] \in goroutines[g].got
        /\ [t |-> t, table |-> fieldCache[t]] \in goroutines[h].got
        /\ goroutines[k].pc = "idle" /\ goroutines[k].mine = <<>>
        /\ [t |-> t, table |-> fieldCache[t]] \in goroutines[k].got

(***************************************************************************)
(* C19: an error of the token reader ends the call.  Once the reader has   *)
(* returned an error, at the first read (io.EOF on an empty input) or at   *)
(* any later one, Unmarshal has returned that very error value, and the    *)
(* reader is not asked for another token.                                  *)
(***************************************************************************)
ReaderErrorReturned == scanErr # NoErr => (result = scanErr /\ stack = <<>>)

NoReadAfterError ==
    scanErr # NoErr => (consumed' = consumed /\ off' = off /\ input' = input /\ tok' = tok)

C19_ReaderErrorVerbatim == []ReaderErrorReturned /\ [][NoReadAfterError]_vars

\* inside a record, after the key A, the reader answered with an error that
\* is not io.EOF, and Unmarshal returned it
C19_Witness ==
    /\ consumed = <<MapStartT, KeyT(sA)>>
    /\ dst0 = PtrTo(Zero(RecA))
    /\ scanErr = ReaderErr(UnexpectedEOF)
    /\ result = ReaderErr(UnexpectedEOF)

(***************************************************************************)
(* C20: the two scanners agree.  Reading the XML form of a valid document, *)
(* the XML scanner emits the tokens the binary scanner emits for the       *)
(* document's binary form: as many, of the same kinds in the same order,   *)
(* with the same keys and the same scalar types.                           *)
(***************************************************************************)
RECURSIVE BinaryTokens(_, _, _)
\* the first n tokens BinaryScanner.Token returns for bytes, up to an error
BinaryTokens(bytes, offset, n) ==
    IF n = 0 \/ BinaryScannerToken(bytes, offset).err # NoErr THEN <<>>
    ELSE <<BinaryScannerToken(bytes, offset).t>>
         \o BinaryTokens(BinaryScannerToken(bytes, offset).input,
                         BinaryScannerToken(bytes, offset).off, n - 1)

SameToken(a, b) ==
    /\ a.k = b.k
    /\ a.k = "Key" => a.name = b.name
    /\ a.k = "Scalar" => a.type = b.type

SameTokens(a, b) == Len(a) = Len(b) /\ \A j \in 1..Len(a) : SameToken(a[j], b[j])

C20_ScannersEmitSameTokens ==
    (cfg.fn = "testScan" /\ cfg.scan = "xml" /\ result # Running) =>
        SameTokens(consumed, BinaryTokens(cfg.bytes, 0, cfg.count))

(***************************************************************************)
(* C21: an empty scalar element, self-closing or expanded, gives one       *)
(* Scalar token with empty data and the XML scanner stops right behind     *)
(* the element's end tag, so that what follows it is still to be read.     *)
(***************************************************************************)
XMLScan == cfg.fn = "testScan" /\ cfg.scan = "xml"

\* the XML name of the scalar type of token t
ElementOf(t) == CHOOSE n \in DOMAIN scalarTypes : scalarTypes[n] = t.type

C21_EmptyElementConsumedExactly ==
    (XMLScan /\ scanErr = NoErr /\ tok.k = "Scalar") =>
        /\ cfg.xml[off] = EndElement(ElementOf(tok))
        /\ cfg.xml[off - 1].x = "StartElement" => tok.data = <<>>

(***************************************************************************)
(* C22: a Binary scalar whose decoded payload is shorter than the 4 or 8   *)
(* bytes the destination's kind needs gives the UnmarshalTypeError         *)
(* "binary (too few bytes)", for every such kind, and nothing else.        *)
(***************************************************************************)
NeedsFour == {TInt32, TUint32, TFloat32}
NeedsEight == {TInt64, TUint64, TFloat64}

\* the payload of the Binary token t as scalar() decodes it
PayloadOf(t) ==
    decBinary(cfg.text, t.data,
              IF cfg.text THEN (IF t.attr.has THEN t.attr.encoding ELSE Base16) ELSE "")

\* the call decoded the Binary token t with a payload of fewer than n bytes
ShortBinary(t, n) ==
    /\ FromMock /\ consumed = <<t>>
    /\ t.k = "Scalar" /\ t.type = "Binary"
    /\ PayloadOf(t).st = "ok" /\ Len(PayloadOf(t).v) < n

C22_TooFewBytes ==
    \A t \in ScalarAlphabet :
        /\ (ShortBinary(t, 4) /\ dst0.ty.k = "ptr" /\ dst0.ty.elem \in NeedsFour) =>
                result = UnmarshalTypeError("binary (too few bytes)", t.data, dst0.ty.elem, off)
        /\ (ShortBinary(t, 8) /\ dst0.ty.k = "ptr" /\ dst0.ty.elem \in NeedsEight) =>
                result = UnmarshalTypeError("binary (too few bytes)", t.data, dst0.ty.elem, off)

(***************************************************************************)
(* C23: brackets balance.  When Unmarshal returns nil, the tokens it has   *)
(* read are exactly one complete value: every MapStart and ArrayStart is   *)
(* closed by its own end token and nothing of the value is left unread.    *)
(***************************************************************************)
C23_SuccessMeansOneCompleteValue ==
    (cfg.fn = "Unmarshal" /\ result = NoErr) => Complete(consumed)

(***************************************************************************)
(* C24: the record does not depend on what an unknown field holds.  A wire *)
(* map that opens with the unknown key X and a map as its value decodes,   *)
(* while the tokens read lie inside that value, to the record it decodes   *)
(* to when the value is empty: the record as it was before the call.       *)
(***************************************************************************)
InsideUnknownValue ==
    /\ Len(consumed) >= 3
    /\ SubSeq(consumed, 1, 3) = <<MapStartT, KeyT(sX), MapStartT>>
    /\ Shape(consumed).ok
    /\ Len(Shape(consumed).stk) >= 2

C24_UnknownValueNotObserved ==
    (FromMock /\ Into(RecA) /\ ~cfg.DisallowUnknownFields /\ InsideUnknownValue) =>
        /\ dst = dst0
        /\ result = Running \/ (scanErr # NoErr /\ result = scanErr)

(***************************************************************************)
(* C25: a slice takes the length of the wire array.  After a wire array of *)
(* n integers is decoded into a []int32 without error, the slice has       *)
(* length n and holds the n elements in wire order, whatever it held       *)
(* before the call.                                                        *)
(***************************************************************************)
\* the tokens read are exactly an array of n integers 1
FlatArray(n) == consumed = <<ArrayStartT>> \o [j \in 1..n |-> Int1] \o <<ArrayEndT>>

C25_SliceHasWireLength ==
    \A n \in 0..MaxTokens :
        (FromMock /\ Into(TSlice(TInt32)) /\ FlatArray(n) /\ result = NoErr) =>
            /\ dst.elem.len = n
            /\ \A j \in 1..n : dst.elem.arr[j] = VInt(TInt32, 1)

(***************************************************************************)
(* C26: a nil map is allocated.  Decoding a wire map with a first member   *)
(* into a map[string]int32 that is nil allocates the map and inserts the   *)
(* member; the call does not panic.                                        *)
(***************************************************************************)
C26_NilMapIsAllocated ==
    \A key \in {sA, sX} :
        (FromMock /\ Into(TMap(TString, TInt32)) /\ dst0.elem.isnil
            /\ consumed = <<MapStartT, KeyT(key), Int1>>) =>
            /\ result = Running \/ (scanErr # NoErr /\ result = scanErr)
            /\ ~dst.elem.isnil
            /\ DOMAIN dst.elem.m = {key}
            /\ dst.elem.m[key] = VInt(TInt32, 1)

(***************************************************************************)
(* C27: the binary scanner does not invent bytes.  After every Token call  *)
(* that returned no error, Offset() is the number of input bytes consumed, *)
(* so a token is never made of bytes the input did not hold: an input that *)
(* ends inside a payload, a length or a size hint gives an error.          *)
(***************************************************************************)
C27_OffsetIsBytesConsumed ==
    (cfg.scan = "binary" /\ Len(consumed) >= 1 /\ scanErr = NoErr) =>
        off + Len(input) = Len(cfg.bytes)

(***************************************************************************)
(* C28: a UUID scalar reaches a UUID destination.  Decoding the <uuid>     *)
(* text of a UUID, or the 'u' op code with its 16 bytes, into a UUID       *)
(* succeeds and leaves the 16 bytes in the destination.                    *)
(***************************************************************************)
C28_UUIDIsStored ==
    (cfg.fn = "Unmarshal" /\ Into(TUUID)
        /\ consumed \in {<<ScalarT("UUIDType", UUIDText)>>, <<ScalarT("UUIDType", UUIDBytes)>>}) =>
        (result = NoErr /\ dst.elem = UUIDOnes)

(***************************************************************************)
(* C29: <integer> is a signed 32-bit value that reads back.  The number    *)
(* the encoder writes for an integer of any kind it accepts lies between   *)
(* -2^31 and 2^31 - 1, and decoding the element into a value of the kind   *)
(* it was written from gives the value back without error.                 *)
(***************************************************************************)
\* the number written between <integer> and </integer>
Written == Atoi(output[2].data)

C29_IntegerRoundTrip ==
    (cfg.fn = "marshalValue" /\ output # <<>>) =>
        /\ Written.st = "ok" /\ WTrunc(Written.v, 32) = Written.v
        /\ stack = <<>> => (result = NoErr /\ dst = PtrTo(dst0))

(***************************************************************************)
(* C30: Unmarshal terminates on a finite token stream.  Every step of a    *)
(* running call reads one more token of the stream or ends the call, the   *)
(* activations of object and array on the call stack are never more than   *)
(* the containers open in the tokens read, and once the reader has         *)
(* reported EOF the call has ended.                                        *)
(***************************************************************************)
RECURSIVE Activations(_, _)
\* the activations of object and array among the frames stk[j..]
Activations(stk, j) ==
    IF j > Len(stk) THEN 0
    ELSE (IF stk[j].fn = "Unmarshal" THEN 0 ELSE 1) + Activations(stk, j + 1)

DepthWithinNesting ==
    (cfg.fn = "Unmarshal" /\ result = Running /\ Shape(consumed).ok) =>
        Activations(stack, 1) <= Len(Shape(consumed).stk)

EndsAtEOF == (cfg.fn = "Unmarshal" /\ scanErr = EOF) => result # Running

EveryStepReads ==
    (cfg.fn = "Unmarshal" /\ result = Running) =>
        (result' # Running \/ Len(consumed') = Len(consumed) + 1)

C30_UnmarshalTerminates ==
    [](DepthWithinNesting /\ EndsAtEOF) /\ [][EveryStepReads]_vars

====
